---- MODULE Spec2Model ----
(***************************************************************************)
(* mortal-polarity: the URL based autoannounce pipeline of                 *)
(* polarity/autopost_url.py.  One announcement type is modelled (every     *)
(* type is an instance of the same classes over its own tables): its       *)
(* settings table, the conditional_reset_repeater runs started by the      *)
(* trigger signal, the manual announce command, the autoposts              *)
(* enable/disable command and the public embed command.                    *)
(*                                                                         *)
(* Every "await" of the source is a point where the asyncio loop may run   *)
(* another coroutine, so every handler is cut into one action per await.   *)
(***************************************************************************)
EXTENDS Integers, Sequences, FiniteSets, TLC

\* ---------------------------------------------------------------- bounds
\* conditional_reset_repeater runs (trigger events delivered) in a behaviour
MaxRuns == 2
\* autopost_ctrl invocations in a behaviour
MaxCtrl == 2
\* embed command invocations in a behaviour
MaxEmbed == 2
\* manual_announce invocations in a behaviour
MaxManual == 1
\* the clock runs 0..MaxTime
MaxTime == 1
\* channel records in the autopost channel tables
MaxChannels == 3
\* channel records in the tables a migrate or disable_moved batch reads
MaxBatchChannels == 2
\* the most channel records of a correction pass watched for its progress edits
MaxProgressChannels == 45
\* the most calls of register per signal class
MaxRegister == 3

RunIds == 1..MaxRuns
CtrlIds == 1..MaxCtrl
EmbedIds == 1..MaxEmbed

\* ------------------------------------------------------ program constants
\* UrlPostSettings.default_id, the id of the one settings row of a table
default_id == 0
\* cfg.defaults.xur.gfx_url / post_url
default_gfx_url == "https://kyber3000.com/Xur"
default_post_url == "https://kyber3000.com/Xurpost"

\* Python's None in a String column and in a DateTime column
None == "None"
NoTime == 0 - 1

\* what the infographic link can redirect to
Targets == {"http://b", "http://c"}
Urls == {default_gfx_url}

VARIABLES
    settings,                    \* the settings table: a set of rows, keyed by id
    upstream,                    \* url -> the target it redirects to right now
    now,                         \* dt.datetime.now()
    run,                         \* the conditional_reset_repeater coroutines
    dispatched,                  \* run -> announcement-ready events it has dispatched
    manual_dispatched,           \* announcement-ready events dispatched by manual_announce
    trigger_without_url_update,  \* cfg.test_env and cfg.trigger_without_url_update
    ctrl,                        \* the autopost_ctrl coroutines
    embed,                       \* the embed_command_impl coroutines
    channels,                    \* the autopost channel tables: records, in storage order
    follow_channel_id,           \* cfg.*_follow_channel_id, by channel table
    rectify,                     \* the rectify_announcement coroutine
    batch,                       \* the migrate and disable_moved coroutines
    calls,                       \* the per-channel network calls in flight
    url_cmd,                     \* the gfx_url / post_url coroutine
    commands,                    \* the Commands table: name -> the row's other columns
    command_registry,            \* user_commands.command_registry: name -> command
    bot,                         \* the lb.BotApp: its slash commands and listeners
    signal_linked,               \* _signal_linked in the signal classes' namespaces
    user_cmd,                    \* the add, delete or edit command being handled
    register_calls               \* signal class -> the calls of its register so far

\* the state of the fan-out batches and of the url commands
fanout_vars == <<channels, follow_channel_id, rectify, batch, calls, url_cmd>>

\* the state of the admin-defined commands and of the bot's registrations
command_vars ==
    <<commands, command_registry, bot, signal_linked, user_cmd, register_calls>>

vars == <<settings, upstream, now, run, dispatched, manual_dispatched,
          trigger_without_url_update, ctrl, embed, fanout_vars, command_vars>>

\* ------------------------------------------------------------ the ORM row
\* UrlPostSettings.__init__: the columns it does not set are NULL, and
\* url_watcher_armed takes its column default
UrlPostSettings(id, url, post_url, autoannounce_enabled) ==
    [id |-> id,
     url |-> IF url # None THEN url ELSE default_gfx_url,
     post_url |-> IF post_url # None THEN post_url ELSE default_post_url,
     autoannounce_enabled |-> autoannounce_enabled,
     url_redirect_target |-> None,
     url_last_modified |-> NoTime,
     url_last_checked |-> NoTime,
     url_watcher_armed |-> FALSE]

\* session.get(table, id): the row, when there is one
HasRow(id) ==
    \E r \in settings : r.id = id

Row(id) ==
    CHOOSE r \in settings : r.id = id

\* session.add(instance) of a new instance, flushed at commit: INSERT
Insert(instance) ==
    settings \cup {instance}

\* commit of a persistent instance: the unit of work UPDATEs only the columns
\* whose value differs from the one loaded (or last flushed), WHERE id = ...
\* A column of instance that loaded does not hold has been given a value the
\* loaded one cannot equal (dt.datetime.now(), later than any stored time).
Flush(loaded, instance) ==
    {IF r.id = instance.id
        THEN [f \in DOMAIN r |->
                IF /\ f \in DOMAIN instance
                   /\ (f \in DOMAIN loaded => instance[f] # loaded[f])
                   THEN instance[f] ELSE r[f]]
        ELSE r : r \in settings}

\* an instance, as far as one handler reads or writes it: its columns cols
Columns(instance, cols) ==
    [f \in cols |-> instance[f]]

\* the columns UrlPostSettings.wait_for_url_update works with
WatchColumns ==
    {"id", "url", "url_redirect_target", "url_watcher_armed"}

\* the columns autopost_ctrl works with
CtrlColumns ==
    {"id", "autoannounce_enabled"}

\* follow_link_single_step(url): one redirect hop of the link, right now; a
\* link that does not redirect resolves to itself
follow_link_single_step(url) ==
    IF url \in DOMAIN upstream THEN upstream[url] ELSE url

\* mutant: update_url stamping url_last_modified at every poll
update_url_always_modified(self, redirected_url, t) ==
    [self EXCEPT !.url_last_checked = t,
                 !.url_redirect_target = redirected_url,
                 !.url_last_modified = t]

\* UrlPostSettings.update_url on an instance, the link resolving to
\* redirected_url at time t
update_url(self, redirected_url, t) ==
    LET checked == [self EXCEPT !.url_last_checked = t]
        changed == IF redirected_url # checked.url_redirect_target
                      THEN [checked EXCEPT !.url_redirect_target = redirected_url,
                                           !.url_last_modified = checked.url_last_checked]
                      ELSE checked
    IN  IF changed.url_last_modified = NoTime
           THEN [changed EXCEPT !.url_last_modified = changed.url_last_checked]
           ELSE changed

\* ------------------------------------------------------ the channel tables
\* the channel tables, in the order migrate and disable_moved_channels read them
ChannelTables == <<"ls", "xur", "reset">>

\* the table of the announcement type modelled (xur.XurAutopostChannel)
autopost_channel_table == "xur"

\* cfg.kyber_discord_server_id, and the id of some other server
kyber_discord_server_id == 1
other_server_id == 2

\* Python's None in last_msg_id
NoMessage == 0 - 1

\* a row of a channel table: the columns the fan-outs read and write
BaseChannelRecord(id, table, server_id, last_msg_id, enabled) ==
    [id |-> id, table |-> table, server_id |-> server_id,
     last_msg_id |-> last_msg_id, enabled |-> enabled]

\* the tables holding n records, with ids 1..n in storage order, of the
\* given tables and servers, posted to (last_msg_id set) or not, enabled or not
ChannelRecords(n, tables, servers, posted, enabled) ==
    {[i \in 1..n |->
        BaseChannelRecord(i, f[i].table, f[i].server_id,
                          IF f[i].posted THEN 100 + i ELSE NoMessage,
                          f[i].enabled)] :
        f \in [1..n -> [table : tables, server_id : servers,
                        posted : posted, enabled : enabled]]}

\* select(channel_table).where(channel_table.enabled == True), fetchall()
SelectEnabled(table) ==
    SelectSeq(channels, LAMBDA r : r.table = table /\ r.enabled)

\* Python's round(a / b) for a >= 0, b > 0: to the nearest integer, a tie to
\* the even one
round(a, b) ==
    LET q == a \div b
        r == a % b
    IN  IF 2 * r < b THEN q
        ELSE IF 2 * r > b THEN q + 1
        ELSE IF q % 2 = 0 THEN q ELSE q + 1

\* what an edit of a channel's last message can come to inside
\* _edit_embedded_message, which logs a failure and returns
edit_embedded_message == {"edited", "forbidden", "not_found"}

\* ------------------------------------------------------------------- Init
NoInstance == UrlPostSettings(default_id, None, None, TRUE)

\* a row as a previous life of the bot left it: polled at time 0
PolledRow(target) ==
    [NoInstance EXCEPT !.url_redirect_target = target,
                       !.url_last_modified = 0,
                       !.url_last_checked = 0]

IdleRun ==
    [pc |-> "idle", self |-> Columns(NoInstance, WatchColumns), cur |-> None,
     result |-> "none"]

\* a coroutine that has ended: its locals are gone
Ended(pc, result) ==
    [IdleRun EXCEPT !.pc = pc, !.result = result]

IdleCtrl ==
    [pc |-> "idle", option |-> TRUE, self |-> Columns(NoInstance, CtrlColumns)]

IdleEmbed == [pc |-> "idle", loaded |-> NoInstance, self |-> NoInstance]

\* a command that has not been given: its coroutine has no locals yet
NotRunning ==
    [pc |-> "idle"]

\* the locals of rectify_announcement as it starts
IdleRectify ==
    [pc |-> "idle", found |-> FALSE, loaded |-> NoInstance, self |-> NoInstance,
     channel_record_list |-> <<>>, idx |-> 0, none_counter |-> 0,
     percentage_progress |-> 0, outcomes |-> <<>>, edits |-> <<>>,
     report |-> NoMessage]

\* the locals of gfx_url and of post_url, as they start
IdleUrlCmd ==
    [pc |-> "idle", command |-> "none", url |-> None, found |-> FALSE,
     loaded |-> NoInstance, self |-> NoInstance, response |-> <<>>]

\* the locals of migrate and of disable_moved_channels, as they start
IdleBatch ==
    [pc |-> "idle", command |-> "none", option |-> FALSE, latency |-> 0,
     channel_record_list_all_types |-> <<>>, follow_channel |-> 0,
     not_found |-> 0, forbidden |-> 0, bad_request |-> 0, not_guild |-> 0,
     misc_exception |-> 0, migrated |-> 0, disabled |-> 0, iterations |-> 0,
     outcome |-> "none", changed |-> {}, edits |-> 0,
     checked |-> {}, followed |-> {}]

\* cfg.ls_follow_channel_id, xur_follow_channel_id, reset_follow_channel_id
\* of a deployment with following enabled
FollowChannelIds ==
    [t \in {"ls", "xur", "reset"} |->
        IF t = "ls" THEN 10 ELSE IF t = "xur" THEN 20 ELSE 30]

\* the signal classes of the url announcements, and their base class
SignalClasses == {"XurSignal", "WeeklyResetPostSignal"}

\* the hardcoded command names add_command rejects
ReservedNames == {"add", "edit", "delete"}

\* a table, or a dict, with no entry
Empty == [name \in {} |-> None]

\* the admin-defined commands and the registrations once main.py has
\* registered every module and the bot has started on an empty Commands table
InitCommands ==
    /\ commands = Empty
    /\ command_registry = Empty
    /\ bot = [slash_commands |-> ReservedNames,
              listeners |-> [cls \in SignalClasses |-> 1]]
    /\ signal_linked = [cls \in {"BaseUrlSignal"} \cup SignalClasses |->
                           cls \in SignalClasses]
    /\ user_cmd = NotRunning
    /\ register_calls = [cls \in SignalClasses |-> 1]

\* the fan-out state before any fan-out command has been given
InitFanout ==
    /\ channels = <<>>
    /\ follow_channel_id = FollowChannelIds
    /\ rectify = NotRunning
    /\ batch = NotRunning
    /\ calls = {}
    /\ url_cmd = NotRunning
    /\ InitCommands

Init ==
    /\ settings \in {{}, {NoInstance}} \cup {{PolledRow(t)} : t \in Targets}
    /\ upstream = [u \in Urls |-> "http://b"]
    /\ now = 0
    /\ run = [i \in RunIds |-> IdleRun]
    /\ dispatched = [i \in RunIds |-> 0]
    /\ manual_dispatched = 0
    /\ trigger_without_url_update \in BOOLEAN
    /\ ctrl = [c \in CtrlIds |-> IdleCtrl]
    /\ embed = [e \in EmbedIds |-> IdleEmbed]
    /\ InitFanout

\* ------------------------------------------- BaseUrlSignal, one run each
\* the runs are started in the order of their ids
CanStart(i) ==
    /\ run[i].pc = "idle"
    /\ \A j \in RunIds : j < i => run[j].pc # "idle"

\* the trigger_on_signal event (the scheduler's daily/weekly/weekend signal)
\* reaches the listener that BaseUrlSignal.register subscribed:
\* a conditional_reset_repeater coroutine is started
trigger_on_signal(i) ==
    /\ CanStart(i)
    /\ run' = [run EXCEPT ![i].pc = "is_autoannounce_enabled"]
    /\ UNCHANGED <<fanout_vars, command_vars, settings, upstream, now, dispatched, manual_dispatched,
                   trigger_without_url_update, ctrl, embed>>

\* mutant: conditional_reset_repeater without its autoannounce_enabled guard
after_is_autoannounce_enabled_unguarded(i, instance) ==
    /\ run' = [run EXCEPT ![i].pc = "wait_for_url_update"]
    /\ dispatched' = [dispatched EXCEPT
                        ![i] = IF trigger_without_url_update THEN @ + 1 ELSE @]

\* mutant: the debug dispatch taken in every configuration
after_is_autoannounce_enabled_dispatching(i, instance) ==
    IF ~instance.autoannounce_enabled
       THEN /\ run' = [run EXCEPT ![i] = Ended("disabled", "none")]
            /\ UNCHANGED dispatched
       ELSE /\ run' = [run EXCEPT ![i].pc = "wait_for_url_update"]
            /\ dispatched' = [dispatched EXCEPT ![i] = @ + 1]

\* conditional_reset_repeater from the value of is_autoannounce_enabled on:
\* the early return, the debug dispatch, and the call of wait_for_url_update
\* up to the session.get of its _create_or_get
after_is_autoannounce_enabled(i, instance) ==
    IF ~instance.autoannounce_enabled
       THEN /\ run' = [run EXCEPT ![i] = Ended("disabled", "none")]
            /\ UNCHANGED dispatched
       ELSE /\ run' = [run EXCEPT ![i].pc = "wait_for_url_update"]
            /\ dispatched' = [dispatched EXCEPT
                                ![i] = IF trigger_without_url_update THEN @ + 1 ELSE @]

\* is_autoannounce_enabled: _create_or_get(settings_table, 0,
\* autoannounce_enabled=True) finds the row, or finds none and goes on to add one
is_autoannounce_enabled(i) ==
    /\ run[i].pc = "is_autoannounce_enabled"
    /\ IF HasRow(default_id)
          THEN after_is_autoannounce_enabled(i, Row(default_id))
          ELSE /\ run' = [run EXCEPT ![i].pc = "is_autoannounce_enabled_insert"]
               /\ UNCHANGED dispatched
    /\ UNCHANGED <<fanout_vars, command_vars, settings, upstream, now, manual_dispatched,
                   trigger_without_url_update, ctrl, embed>>

\* _create_or_get commits the row it constructed; the primary key rejects the
\* INSERT when another session has added the row meanwhile
create_or_get_insert(i) ==
    /\ run[i].pc \in {"is_autoannounce_enabled_insert", "wait_for_url_update_insert"}
    /\ IF HasRow(default_id)
          THEN /\ run' = [run EXCEPT ![i] = Ended("raised", "IntegrityError")]
               /\ UNCHANGED <<fanout_vars, command_vars, settings, dispatched>>
          ELSE IF run[i].pc = "is_autoannounce_enabled_insert"
                  THEN LET instance == UrlPostSettings(default_id, None, None, TRUE)
                       IN  /\ settings' = Insert(instance)
                           /\ after_is_autoannounce_enabled(i, instance)
                  ELSE LET instance == UrlPostSettings(default_id, None, None, TRUE)
                       IN  /\ settings' = Insert(instance)
                           /\ run' = [run EXCEPT
                                         ![i].pc = "arm",
                                         ![i].self = Columns(instance, WatchColumns)]
                           /\ UNCHANGED dispatched
    /\ UNCHANGED <<fanout_vars, command_vars, upstream, now, manual_dispatched,
                   trigger_without_url_update, ctrl, embed>>

\* BaseUrlSignal.wait_for_url_update: _create_or_get(settings_table, 0) loads
\* the instance the loop will work on
wait_for_url_update(i) ==
    /\ run[i].pc = "wait_for_url_update"
    /\ IF HasRow(default_id)
          THEN run' = [run EXCEPT
                         ![i].pc = "arm",
                         ![i].self = Columns(Row(default_id), WatchColumns)]
          ELSE run' = [run EXCEPT ![i].pc = "wait_for_url_update_insert"]
    /\ UNCHANGED <<fanout_vars, command_vars, settings, upstream, now, dispatched, manual_dispatched,
                   trigger_without_url_update, ctrl, embed>>

\* UrlPostSettings.wait_for_url_update, the first transaction:
\* session.add(self); self.url_watcher_armed = True; commit
arm(i) ==
    /\ run[i].pc = "arm"
    /\ LET instance == [run[i].self EXCEPT !.url_watcher_armed = TRUE]
       IN  /\ settings' = Flush(run[i].self, instance)
           /\ run' = [run EXCEPT ![i].pc = "poll", ![i].self = instance]
    /\ UNCHANGED <<fanout_vars, command_vars, upstream, now, dispatched, manual_dispatched,
                   trigger_without_url_update, ctrl, embed>>

\* the loop's follow_link_single_step raises aiohttp.ServerDisconnectedError:
\* "continue", the next iteration polls again at once
poll_disconnected(i) ==
    /\ run[i].pc = "poll"
    /\ run' = [run EXCEPT ![i].result = "ServerDisconnectedError"]
    /\ UNCHANGED <<fanout_vars, command_vars, settings, upstream, now, dispatched, manual_dispatched,
                   trigger_without_url_update, ctrl, embed>>

\* mutant: the loop's except clause catching every exception
poll_raised_retried(i) ==
    /\ run[i].pc = "poll"
    /\ run' = [run EXCEPT ![i].result = "ClientError"]
    /\ UNCHANGED <<fanout_vars, command_vars, settings, upstream, now, dispatched, manual_dispatched,
                   trigger_without_url_update, ctrl, embed>>

\* the loop's follow_link_single_step raises anything else: nothing catches it,
\* in wait_for_url_update or in conditional_reset_repeater
poll_raised(i) ==
    /\ run[i].pc = "poll"
    /\ run' = [run EXCEPT ![i] = Ended("raised", "ClientError")]
    /\ UNCHANGED <<fanout_vars, command_vars, settings, upstream, now, dispatched, manual_dispatched,
                   trigger_without_url_update, ctrl, embed>>

\* the loop's follow_link_single_step returns: compared with the instance's
\* url_redirect_target, the loop sleeps or goes on to its second transaction
poll(i) ==
    /\ run[i].pc = "poll"
    /\ LET current_redirected_url == follow_link_single_step(run[i].self.url)
       IN  run' = [run EXCEPT
                     ![i].cur = current_redirected_url,
                     ![i].result = "resolved",
                     ![i].pc = IF current_redirected_url # run[i].self.url_redirect_target
                                  THEN "commit" ELSE "sleep"]
    /\ UNCHANGED <<fanout_vars, command_vars, settings, upstream, now, dispatched, manual_dispatched,
                   trigger_without_url_update, ctrl, embed>>

\* asyncio.sleep(check_interval) is over
sleep(i) ==
    /\ run[i].pc = "sleep"
    /\ run' = [run EXCEPT ![i].pc = "poll"]
    /\ UNCHANGED <<fanout_vars, command_vars, settings, upstream, now, dispatched, manual_dispatched,
                   trigger_without_url_update, ctrl, embed>>

\* mutant: the second transaction without self.url_watcher_armed = False
commit_keeps_armed(i) ==
    /\ run[i].pc = "commit"
    /\ LET instance == [url_last_modified |-> now] @@
                        [run[i].self EXCEPT !.url_redirect_target = run[i].cur]
       IN  /\ settings' = Flush(run[i].self, instance)
           /\ run' = [run EXCEPT ![i] = Ended("returned", run[i].result)]
    /\ dispatched' = [dispatched EXCEPT ![i] = @ + 1]
    /\ UNCHANGED <<fanout_vars, command_vars, upstream, now, manual_dispatched,
                   trigger_without_url_update, ctrl, embed>>

\* mutant: the second transaction writing every column of the instance
commit_whole_row(i) ==
    /\ run[i].pc = "commit"
    /\ LET instance == [url_last_modified |-> now] @@
                        [run[i].self EXCEPT !.url_redirect_target = run[i].cur,
                                            !.url_watcher_armed = FALSE]
       IN  /\ settings' = {IF r.id = instance.id
                              THEN [f \in DOMAIN r |->
                                      IF f \in DOMAIN instance THEN instance[f] ELSE r[f]]
                              ELSE r : r \in settings}
           /\ run' = [run EXCEPT ![i] = Ended("returned", run[i].result)]
    /\ dispatched' = [dispatched EXCEPT ![i] = @ + 1]
    /\ UNCHANGED <<fanout_vars, command_vars, upstream, now, manual_dispatched,
                   trigger_without_url_update, ctrl, embed>>

\* the loop's second transaction commits, wait_for_url_update returns, and
\* conditional_reset_repeater dispatches the signal (no await in between)
commit(i) ==
    /\ run[i].pc = "commit"
    /\ LET instance == [url_last_modified |-> now] @@
                        [run[i].self EXCEPT !.url_redirect_target = run[i].cur,
                                            !.url_watcher_armed = FALSE]
       IN  /\ settings' = Flush(run[i].self, instance)
           /\ run' = [run EXCEPT ![i] = Ended("returned", run[i].result)]
    /\ dispatched' = [dispatched EXCEPT ![i] = @ + 1]
    /\ UNCHANGED <<fanout_vars, command_vars, upstream, now, manual_dispatched,
                   trigger_without_url_update, ctrl, embed>>

\* mutant: manual_announce dispatching trigger_on_signal, the signal of the
\* scheduler, so that a conditional_reset_repeater run is started
manual_announce_trigger ==
    /\ manual_dispatched < MaxManual
    /\ manual_dispatched' = manual_dispatched + 1
    /\ \E i \in RunIds :
          /\ CanStart(i)
          /\ run' = [run EXCEPT ![i].pc = "is_autoannounce_enabled"]
    /\ UNCHANGED <<fanout_vars, command_vars, settings, upstream, now, dispatched,
                   trigger_without_url_update, ctrl, embed>>

\* UrlAutopostsBase.manual_announce: dispatches autopost_trigger_signal, the
\* signal conditional_reset_repeater dispatches when its wait is over
manual_announce ==
    /\ manual_dispatched < MaxManual
    /\ manual_dispatched' = manual_dispatched + 1
    /\ UNCHANGED <<fanout_vars, command_vars, settings, upstream, now, run, dispatched,
                   trigger_without_url_update, ctrl, embed>>

\* --------------------------------------------- UrlAutopostsBase.autopost_ctrl
\* the admin runs "autoposts Enable|Disable"
autopost_ctrl(c, option) ==
    /\ ctrl[c].pc = "idle"
    /\ \A d \in CtrlIds : d < c => ctrl[d].pc # "idle"
    /\ ctrl' = [ctrl EXCEPT ![c].pc = "get", ![c].option = option]
    /\ UNCHANGED <<fanout_vars, command_vars, settings, upstream, now, run, dispatched, manual_dispatched,
                   trigger_without_url_update, embed>>

\* settings = await session.get(self.settings_table, 0), and what the handler
\* does to the instance up to the commit
autopost_ctrl_get(c) ==
    /\ ctrl[c].pc = "get"
    /\ IF HasRow(default_id)
          THEN ctrl' = [ctrl EXCEPT
                          ![c].pc = "update",
                          ![c].self = Columns(Row(default_id), CtrlColumns)]
          ELSE ctrl' = [ctrl EXCEPT ![c].pc = "insert"]
    /\ UNCHANGED <<fanout_vars, command_vars, settings, upstream, now, run, dispatched, manual_dispatched,
                   trigger_without_url_update, embed>>

\* the transaction commits: the INSERT of the new row (the primary key rejects
\* it when the row has been added meanwhile), or the UPDATE of the flag
autopost_ctrl_commit(c) ==
    /\ ctrl[c].pc \in {"insert", "update"}
    /\ IF ctrl[c].pc = "insert"
          THEN IF HasRow(default_id)
                  THEN /\ ctrl' = [ctrl EXCEPT ![c].pc = "raised"]
                       /\ UNCHANGED settings
                  ELSE LET instance ==
                               UrlPostSettings(default_id, None, None, ctrl[c].option)
                       IN  /\ settings' = Insert(instance)
                           /\ ctrl' = [ctrl EXCEPT
                                          ![c].pc = "responded",
                                          ![c].self = Columns(instance, CtrlColumns)]
          ELSE LET instance == [ctrl[c].self EXCEPT !.autoannounce_enabled = ctrl[c].option]
               IN  /\ settings' = Flush(ctrl[c].self, instance)
                   /\ ctrl' = [ctrl EXCEPT ![c].pc = "responded", ![c].self = instance]
    /\ UNCHANGED <<fanout_vars, command_vars, upstream, now, run, dispatched, manual_dispatched,
                   trigger_without_url_update, embed>>

\* autopost_ctrl run to its end with no other coroutine scheduled in between
autopost_ctrl_uninterrupted(option) ==
    /\ IF HasRow(default_id)
          THEN LET loaded == Columns(Row(default_id), CtrlColumns)
               IN  settings' = Flush(loaded, [loaded EXCEPT !.autoannounce_enabled = option])
          ELSE settings' = Insert(UrlPostSettings(default_id, None, None, option))
    /\ UNCHANGED <<fanout_vars, command_vars, upstream, now, run, dispatched, manual_dispatched,
                   trigger_without_url_update, ctrl, embed>>

\* --------------------------------------- UrlPostSettings.embed_command_impl
\* a user runs the embed command: settings = await session.get(cls, 0)
embed_command_impl(e) ==
    /\ embed[e].pc = "idle"
    /\ \A d \in EmbedIds : d < e => embed[d].pc # "idle"
    /\ IF HasRow(default_id)
          THEN embed' = [embed EXCEPT ![e].pc = "update_url",
                                      ![e].loaded = Row(default_id),
                                      ![e].self = Row(default_id)]
          ELSE embed' = [embed EXCEPT ![e].pc = "raised"]
    /\ UNCHANGED <<fanout_vars, command_vars, settings, upstream, now, run, dispatched, manual_dispatched,
                   trigger_without_url_update, ctrl>>

\* get_announce_embed: await self.update_url(), the link resolving
embed_update_url(e) ==
    /\ embed[e].pc = "update_url"
    /\ embed' = [embed EXCEPT
                   ![e].pc = "commit",
                   ![e].self = update_url(embed[e].self,
                                          follow_link_single_step(embed[e].self.url), now)]
    /\ UNCHANGED <<fanout_vars, command_vars, settings, upstream, now, run, dispatched, manual_dispatched,
                   trigger_without_url_update, ctrl>>

\* update_url's follow_link_single_step raises: nothing catches it, the
\* transaction is rolled back
embed_update_url_raised(e) ==
    /\ embed[e].pc = "update_url"
    /\ embed' = [embed EXCEPT ![e].pc = "raised"]
    /\ UNCHANGED <<fanout_vars, command_vars, settings, upstream, now, run, dispatched, manual_dispatched,
                   trigger_without_url_update, ctrl>>

\* ctx.respond(embed=...) is sent and the transaction commits
embed_commit(e) ==
    /\ embed[e].pc = "commit"
    /\ settings' = Flush(embed[e].loaded, embed[e].self)
    /\ embed' = [embed EXCEPT ![e].pc = "responded"]
    /\ UNCHANGED <<fanout_vars, command_vars, upstream, now, run, dispatched, manual_dispatched,
                   trigger_without_url_update, ctrl>>

\* ------------------------------------------------------------ environment
\* the process ends (controller.restart: sys.exit(1), or a shutdown) and is
\* started again: every coroutine is gone, the database is as it was
restart ==
    /\ \/ \E i \in RunIds : run[i].pc # "idle"
       \/ \E c \in CtrlIds : ctrl[c].pc # "idle"
       \/ \E e \in EmbedIds : embed[e].pc # "idle"
    /\ run' = [i \in RunIds |->
                 IF run[i].pc \in {"idle", "disabled", "returned", "raised"}
                    THEN run[i] ELSE Ended("killed", "none")]
    /\ ctrl' = [c \in CtrlIds |->
                  IF ctrl[c].pc \in {"idle", "responded", "raised"}
                     THEN ctrl[c] ELSE [ctrl[c] EXCEPT !.pc = "killed"]]
    /\ embed' = [e \in EmbedIds |->
                   IF embed[e].pc \in {"idle", "responded", "raised"}
                      THEN embed[e] ELSE [embed[e] EXCEPT !.pc = "killed"]]
    /\ UNCHANGED <<fanout_vars, command_vars, settings, upstream, now, dispatched, manual_dispatched,
                   trigger_without_url_update>>

\* the infographic behind the link is replaced
upstream_changes(u, t) ==
    /\ upstream[u] # t
    /\ upstream' = [upstream EXCEPT ![u] = t]
    /\ UNCHANGED <<fanout_vars, command_vars, settings, now, run, dispatched, manual_dispatched,
                   trigger_without_url_update, ctrl, embed>>

\* time passes
tick ==
    /\ now < MaxTime
    /\ now' = now + 1
    /\ UNCHANGED <<fanout_vars, command_vars, settings, upstream, run, dispatched, manual_dispatched,
                   trigger_without_url_update, ctrl, embed>>

\* alembic revision 27898c22095b, upgrade(): run at release, before the bot
\* process starts; it adds the settings row when the table has none
upgrade ==
    /\ \A i \in RunIds : run[i].pc = "idle"
    /\ \A c \in CtrlIds : ctrl[c].pc = "idle"
    /\ \A e \in EmbedIds : embed[e].pc = "idle"
    /\ ~HasRow(default_id)
    /\ settings' = Insert(UrlPostSettings(default_id, None, None, TRUE))
    /\ UNCHANGED <<fanout_vars, command_vars, upstream, now, run, dispatched, manual_dispatched,
                   trigger_without_url_update, ctrl, embed>>

\* ------------------------------------ UrlAutopostsBase.rectify_announcement
\* what no fan-out writes, the settings table apart
watch_vars ==
    <<upstream, now, run, dispatched, manual_dispatched,
      trigger_without_url_update, ctrl, embed, url_cmd, command_vars>>

\* a per-channel network call of a batch, from its start to its return
Call(b, channel_record) ==
    [batch |-> b, channel |-> channel_record.id]

\* the admin runs "update": the correction pass starts
rectify_announcement ==
    /\ rectify.pc = "idle"
    /\ rectify' = [IdleRectify EXCEPT !.pc = "get"]
    /\ UNCHANGED <<settings, watch_vars, channels, follow_channel_id, batch, calls>>

\* settings = await session.get(self.settings_table, 0); with no row, the
\* "Please enable autoposts" response, and the handler goes on
rectify_get ==
    /\ rectify.pc = "get"
    /\ IF HasRow(default_id)
          THEN rectify' = [rectify EXCEPT !.pc = "update_url", !.found = TRUE,
                                          !.loaded = Row(default_id),
                                          !.self = Row(default_id)]
          ELSE rectify' = [rectify EXCEPT !.pc = "select", !.found = FALSE]
    /\ UNCHANGED <<settings, watch_vars, channels, follow_channel_id, batch, calls>>

\* await settings.update_url(), inside the transaction
rectify_update_url ==
    /\ rectify.pc = "update_url"
    /\ rectify' = [rectify EXCEPT
                     !.pc = "select",
                     !.self = update_url(rectify.self,
                                         follow_link_single_step(rectify.self.url), now)]
    /\ UNCHANGED <<settings, watch_vars, channels, follow_channel_id, batch, calls>>

\* follow_link_single_step raises in either update_url: nothing catches it
rectify_update_url_raised ==
    /\ rectify.pc \in {"update_url", "get_announce_embed"}
    /\ rectify.found
    /\ rectify' = [rectify EXCEPT !.pc = "raised"]
    /\ UNCHANGED <<settings, watch_vars, channels, follow_channel_id, batch, calls>>

\* the select of the enabled channel records, in storage order
rectify_select ==
    /\ rectify.pc = "select"
    /\ rectify' = [rectify EXCEPT
                     !.pc = "commit",
                     !.channel_record_list = SelectEnabled(autopost_channel_table)]
    /\ UNCHANGED <<settings, watch_vars, channels, follow_channel_id, batch, calls>>

\* the transaction commits what update_url changed, and
\* ctx.respond("Correcting posts now")
rectify_commit ==
    /\ rectify.pc = "commit"
    /\ settings' = IF rectify.found THEN Flush(rectify.loaded, rectify.self)
                                    ELSE settings
    /\ rectify' = [rectify EXCEPT !.pc = "get_announce_embed",
                                  !.loaded = rectify.self]
    /\ UNCHANGED <<watch_vars, channels, follow_channel_id, batch, calls>>

\* mutant: the pass going on with a default embed when there is no row
rectify_get_announce_embed_without_row ==
    /\ rectify.pc = "get_announce_embed"
    /\ rectify' = [rectify EXCEPT !.pc = "loop"]
    /\ UNCHANGED <<settings, watch_vars, channels, follow_channel_id, batch, calls>>

\* embed = await settings.get_announce_embed(): settings is None raises
\* AttributeError; else update_url once more, outside any transaction
rectify_get_announce_embed ==
    /\ rectify.pc = "get_announce_embed"
    /\ IF rectify.found
          THEN rectify' = [rectify EXCEPT
                             !.pc = "loop",
                             !.self = update_url(rectify.self,
                                                 follow_link_single_step(rectify.self.url),
                                                 now)]
          ELSE rectify' = [rectify EXCEPT !.pc = "raised"]
    /\ UNCHANGED <<settings, watch_vars, channels, follow_channel_id, batch, calls>>

\* mutant: a record without last_msg_id passed over without being counted
rectify_loop_uncounted ==
    /\ rectify.pc = "loop"
    /\ LET no_of_channels == Len(rectify.channel_record_list)
       IN  IF rectify.idx = no_of_channels
              THEN /\ rectify' = [rectify EXCEPT
                                    !.pc = "done",
                                    !.report = no_of_channels - rectify.none_counter]
                   /\ UNCHANGED calls
              ELSE LET channel_record == rectify.channel_record_list[rectify.idx + 1]
                   IN  IF channel_record.last_msg_id = NoMessage
                          THEN /\ rectify' = [rectify EXCEPT
                                                !.idx = @ + 1,
                                                !.outcomes = Append(@, "skipped")]
                               /\ UNCHANGED calls
                          ELSE /\ rectify' = [rectify EXCEPT !.pc = "edit"]
                               /\ calls' = calls \cup {Call("rectify", channel_record)}
    /\ UNCHANGED <<settings, watch_vars, channels, follow_channel_id, batch>>

\* mutant: the edits started one after the other without being awaited
rectify_loop_gathered ==
    /\ rectify.pc = "loop"
    /\ LET no_of_channels == Len(rectify.channel_record_list)
       IN  IF rectify.idx = no_of_channels
              THEN /\ rectify' = [rectify EXCEPT
                                    !.pc = "done",
                                    !.report = no_of_channels - rectify.none_counter]
                   /\ UNCHANGED calls
              ELSE LET channel_record == rectify.channel_record_list[rectify.idx + 1]
                   IN  IF channel_record.last_msg_id = NoMessage
                          THEN /\ rectify' = [rectify EXCEPT
                                                !.none_counter = @ + 1,
                                                !.idx = @ + 1,
                                                !.outcomes = Append(@, "skipped")]
                               /\ UNCHANGED calls
                          ELSE /\ rectify' = [rectify EXCEPT !.idx = @ + 1]
                               /\ calls' = calls \cup {Call("rectify", channel_record)}
    /\ UNCHANGED <<settings, watch_vars, channels, follow_channel_id, batch>>

\* the head of the for loop: the completion report when the list is
\* exhausted, the skip of a record without last_msg_id, or the start of
\* _edit_embedded_message for the record
rectify_loop ==
    /\ rectify.pc = "loop"
    /\ LET no_of_channels == Len(rectify.channel_record_list)
       IN  IF rectify.idx = no_of_channels
              THEN /\ rectify' = [rectify EXCEPT
                                    !.pc = "done",
                                    !.report = no_of_channels - rectify.none_counter]
                   /\ UNCHANGED calls
              ELSE LET channel_record == rectify.channel_record_list[rectify.idx + 1]
                   IN  IF channel_record.last_msg_id = NoMessage
                          THEN /\ rectify' = [rectify EXCEPT
                                                !.none_counter = @ + 1,
                                                !.idx = @ + 1,
                                                !.outcomes = Append(@, "skipped")]
                               /\ UNCHANGED calls
                          ELSE /\ rectify' = [rectify EXCEPT !.pc = "edit"]
                               /\ calls' = calls \cup {Call("rectify", channel_record)}
    /\ UNCHANGED <<settings, watch_vars, channels, follow_channel_id, batch>>

\* mutant: an edit that failed ending the pass
rectify_edited_stops_on_error(outcome) ==
    /\ rectify.pc = "edit"
    /\ LET no_of_channels == Len(rectify.channel_record_list)
           channel_record == rectify.channel_record_list[rectify.idx + 1]
           progress == round(20 * (rectify.idx + 1), no_of_channels) * 5
       IN  /\ calls' = calls \ {Call("rectify", channel_record)}
           /\ IF outcome # "edited"
                 THEN rectify' = [rectify EXCEPT
                                    !.outcomes = Append(@, outcome),
                                    !.pc = "raised"]
                 ELSE IF rectify.percentage_progress < progress
                 THEN rectify' = [rectify EXCEPT
                                    !.outcomes = Append(@, outcome),
                                    !.percentage_progress = progress,
                                    !.pc = "progress"]
                 ELSE rectify' = [rectify EXCEPT
                                    !.outcomes = Append(@, outcome),
                                    !.idx = @ + 1,
                                    !.pc = "loop"]
    /\ UNCHANGED <<settings, watch_vars, channels, follow_channel_id, batch>>

\* mutant: a progress edit after every record edited
rectify_edited_every_record(outcome) ==
    /\ rectify.pc = "edit"
    /\ LET no_of_channels == Len(rectify.channel_record_list)
           channel_record == rectify.channel_record_list[rectify.idx + 1]
           progress == round(20 * (rectify.idx + 1), no_of_channels) * 5
       IN  /\ calls' = calls \ {Call("rectify", channel_record)}
           /\ rectify' = [rectify EXCEPT
                             !.outcomes = Append(@, outcome),
                             !.percentage_progress = progress,
                             !.pc = "progress"]
    /\ UNCHANGED <<settings, watch_vars, channels, follow_channel_id, batch>>

\* _edit_embedded_message returns, and the percentage is computed: a progress
\* edit is due when it has grown
rectify_edited(outcome) ==
    /\ rectify.pc = "edit"
    /\ LET no_of_channels == Len(rectify.channel_record_list)
           channel_record == rectify.channel_record_list[rectify.idx + 1]
           progress == round(20 * (rectify.idx + 1), no_of_channels) * 5
       IN  /\ calls' = calls \ {Call("rectify", channel_record)}
           /\ IF rectify.percentage_progress < progress
                 THEN rectify' = [rectify EXCEPT
                                    !.outcomes = Append(@, outcome),
                                    !.percentage_progress = progress,
                                    !.pc = "progress"]
                 ELSE rectify' = [rectify EXCEPT
                                    !.outcomes = Append(@, outcome),
                                    !.idx = @ + 1,
                                    !.pc = "loop"]
    /\ UNCHANGED <<settings, watch_vars, channels, follow_channel_id, batch>>

\* await ctx.edit_last_response("Updating posts: ..%") returns
rectify_progress ==
    /\ rectify.pc = "progress"
    /\ rectify' = [rectify EXCEPT !.edits = Append(@, rectify.percentage_progress),
                                  !.idx = @ + 1,
                                  !.pc = "loop"]
    /\ UNCHANGED <<settings, watch_vars, channels, follow_channel_id, batch, calls>>

\* ctx.edit_last_response raises: nothing catches it
rectify_progress_raised ==
    /\ rectify.pc = "progress"
    /\ rectify' = [rectify EXCEPT !.pc = "raised"]
    /\ UNCHANGED <<settings, watch_vars, channels, follow_channel_id, batch, calls>>

\* a correction pass over the tables and the settings an admin can have left
InitRectify ==
    /\ settings \in {{}, {NoInstance}, {PolledRow("http://b")}}
    /\ upstream = [u \in Urls |-> "http://b"]
    /\ now = 0
    /\ run = [i \in RunIds |-> IdleRun]
    /\ dispatched = [i \in RunIds |-> 0]
    /\ manual_dispatched = 0
    /\ trigger_without_url_update = FALSE
    /\ ctrl = [c \in CtrlIds |-> IdleCtrl]
    /\ embed = [e \in EmbedIds |-> IdleEmbed]
    /\ channels \in UNION {ChannelRecords(n, {autopost_channel_table},
                                          {other_server_id}, BOOLEAN, BOOLEAN) :
                             n \in 0..MaxChannels}
    /\ follow_channel_id = FollowChannelIds
    /\ rectify = NotRunning
    /\ batch = NotRunning
    /\ calls = {}
    /\ url_cmd = NotRunning
    /\ InitCommands

NextRectify ==
    \/ rectify_announcement
    \/ rectify_get
    \/ rectify_update_url
    \/ rectify_update_url_raised
    \/ rectify_select
    \/ rectify_commit
    \/ rectify_get_announce_embed
    \/ rectify_loop
    \/ \E outcome \in edit_embedded_message : rectify_edited(outcome)
    \/ rectify_progress
    \/ rectify_progress_raised

SpecRectify == InitRectify /\ [][NextRectify]_vars

\* a correction pass over a long table of posted, enabled records, every
\* edit and response succeeding
InitProgress ==
    /\ settings = {PolledRow("http://b")}
    /\ upstream = [u \in Urls |-> "http://b"]
    /\ now = 0
    /\ run = [i \in RunIds |-> IdleRun]
    /\ dispatched = [i \in RunIds |-> 0]
    /\ manual_dispatched = 0
    /\ trigger_without_url_update = FALSE
    /\ ctrl = [c \in CtrlIds |-> IdleCtrl]
    /\ embed = [e \in EmbedIds |-> IdleEmbed]
    /\ channels \in UNION {ChannelRecords(n, {autopost_channel_table},
                                          {other_server_id}, {TRUE}, {TRUE}) :
                             n \in 1..MaxProgressChannels}
    /\ follow_channel_id = FollowChannelIds
    /\ rectify = NotRunning
    /\ batch = NotRunning
    /\ calls = {}
    /\ url_cmd = NotRunning
    /\ InitCommands

NextProgress ==
    \/ rectify_announcement
    \/ rectify_get
    \/ rectify_update_url
    \/ rectify_select
    \/ rectify_commit
    \/ rectify_get_announce_embed
    \/ rectify_loop
    \/ rectify_edited("edited")
    \/ rectify_progress

SpecProgress == InitProgress /\ [][NextProgress]_vars

\* --------------------- migration_commands: migrate, disable_moved_channels
\* the time one iteration of a batch takes, in seconds: the same for every
\* iteration of a batch
Latencies == {0, 5, 10, 25}

\* the admin runs "migrate"
migrate(disable_moved, latency) ==
    /\ batch.pc = "idle"
    /\ batch' = [IdleBatch EXCEPT !.pc = "select", !.command = "migrate",
                              !.option = disable_moved, !.latency = latency]
    /\ UNCHANGED <<settings, watch_vars, channels, follow_channel_id, rectify, calls>>

\* the admin runs "disable_moved"
disable_moved_channels(dry_run, latency) ==
    /\ batch.pc = "idle"
    /\ batch' = [IdleBatch EXCEPT !.pc = "select", !.command = "disable_moved",
                              !.option = dry_run, !.latency = latency]
    /\ UNCHANGED <<settings, watch_vars, channels, follow_channel_id, rectify, calls>>

\* the enabled records of the three tables, one table after the other; the
\* loop variable follow_channel is left at the last table's follow channel
batch_select ==
    /\ batch.pc = "select"
    /\ batch' = [batch EXCEPT
                   !.pc = "loop",
                   !.channel_record_list_all_types =
                       SelectEnabled(ChannelTables[1]) \o SelectEnabled(ChannelTables[2])
                           \o SelectEnabled(ChannelTables[3]),
                   !.follow_channel = follow_channel_id[ChannelTables[3]]]
    /\ UNCHANGED <<settings, watch_vars, channels, follow_channel_id, rectify, calls>>

\* session.commit(): the UPDATE of enabled for the records changed in the session
Persisted(changed) ==
    [k \in DOMAIN channels |->
        IF channels[k].id \in changed
           THEN [channels[k] EXCEPT !.enabled = FALSE] ELSE channels[k]]

\* mutant: the session committed at every iteration
batch_loop_committing_each ==
    /\ batch.pc = "loop"
    /\ LET list == batch.channel_record_list_all_types
       IN  IF batch.iterations = Len(list)
              THEN /\ channels' = Persisted(batch.changed)
                   /\ batch' = [batch EXCEPT !.pc = "done"]
                   /\ UNCHANGED calls
              ELSE /\ channels' = Persisted(batch.changed)
                   /\ batch' = [batch EXCEPT !.pc = "try"]
                   /\ calls' = calls \cup {Call(batch.command, list[batch.iterations + 1])}
    /\ UNCHANGED <<settings, watch_vars, follow_channel_id, rectify>>

\* mutant: the calls for all remaining records started together
batch_loop_gathered ==
    /\ batch.pc = "loop"
    /\ LET list == batch.channel_record_list_all_types
       IN  IF batch.iterations = Len(list)
              THEN /\ channels' = Persisted(batch.changed)
                   /\ batch' = [batch EXCEPT !.pc = "done"]
                   /\ UNCHANGED calls
              ELSE /\ UNCHANGED channels
                   /\ batch' = [batch EXCEPT !.pc = "try"]
                   /\ calls' = calls \cup {Call(batch.command, list[k]) :
                                             k \in batch.iterations + 1..Len(list)}
    /\ UNCHANGED <<settings, watch_vars, follow_channel_id, rectify>>

\* the head of the for loop: the calls for the next record are started, or the
\* list is exhausted and the session is committed
batch_loop ==
    /\ batch.pc = "loop"
    /\ LET list == batch.channel_record_list_all_types
       IN  IF batch.iterations = Len(list)
              THEN /\ channels' = Persisted(batch.changed)
                   /\ batch' = [batch EXCEPT !.pc = "done"]
                   /\ UNCHANGED calls
              ELSE /\ UNCHANGED channels
                   /\ batch' = [batch EXCEPT !.pc = "try"]
                   /\ calls' = calls \cup {Call(batch.command, list[batch.iterations + 1])}
    /\ UNCHANGED <<settings, watch_vars, follow_channel_id, rectify>>

\* how the try block of migrate can end for a record: fetch_channel,
\* fetch_channel_webhooks or follow_channel raising, the channel not being a
\* guild channel, the record being of the home server, following being
\* disabled, the channel following already, or the channel followed now
MigrateOutcomes(channel_record, follow_channel) ==
    {"bad_request", "forbidden", "not_found", "not_guild", "misc_exception"}
        \cup (IF channel_record.server_id = kyber_discord_server_id
                 THEN {"home"}
                 ELSE IF follow_channel < 0
                         THEN {"feature_disabled"}
                         ELSE {"following", "migrated"})

\* mutant: a forbidden error counted by its own clause and by the last one
migrate_try_counting_twice(self, channel_record, outcome) ==
    IF outcome = "migrated"
       THEN [self EXCEPT !.outcome = outcome,
                         !.migrated = @ + 1,
                         !.changed = IF self.option THEN @ \cup {channel_record.id} ELSE @,
                         !.checked = @ \cup {<<channel_record.id, self.follow_channel>>},
                         !.followed = @ \cup {<<channel_record.id, self.follow_channel>>}]
       ELSE IF outcome = "following"
       THEN [self EXCEPT !.outcome = outcome,
                         !.checked = @ \cup {<<channel_record.id, self.follow_channel>>}]
       ELSE IF outcome = "forbidden"
       THEN [self EXCEPT !.outcome = outcome, !.forbidden = @ + 1,
                         !.misc_exception = @ + 1]
       ELSE IF outcome \in {"bad_request", "not_found", "not_guild", "misc_exception"}
       THEN [self EXCEPT !.outcome = outcome, ![outcome] = @ + 1]
       ELSE [self EXCEPT !.outcome = outcome]

\* migrate's try block and its except clauses, for one record; checked and
\* followed keep the follow channel the record's webhooks were compared with
\* and the one bot.rest.follow_channel was called with
migrate_try(self, channel_record, outcome) ==
    IF outcome = "migrated"
       THEN [self EXCEPT !.outcome = outcome,
                         !.migrated = @ + 1,
                         !.changed = IF self.option THEN @ \cup {channel_record.id} ELSE @,
                         !.checked = @ \cup {<<channel_record.id, self.follow_channel>>},
                         !.followed = @ \cup {<<channel_record.id, self.follow_channel>>}]
       ELSE IF outcome = "following"
       THEN [self EXCEPT !.outcome = outcome,
                         !.checked = @ \cup {<<channel_record.id, self.follow_channel>>}]
       ELSE IF outcome \in {"bad_request", "forbidden", "not_found", "not_guild",
                            "misc_exception"}
       THEN [self EXCEPT !.outcome = outcome, ![outcome] = @ + 1]
       ELSE [self EXCEPT !.outcome = outcome]

\* how the try block of disable_moved_channels can end for a record
DisableOutcomes(channel_record, follow_channel) ==
    {"exception"}
        \cup (IF channel_record.server_id = kyber_discord_server_id
                 THEN {"home"}
                 ELSE IF follow_channel < 0
                         THEN {"feature_disabled"}
                         ELSE {"following", "not_following"})

\* disable_moved_channels' try block were dry_run not looked at
disable_moved_try_for_real(self, channel_record, outcome) ==
    IF outcome = "following"
       THEN [self EXCEPT !.outcome = outcome,
                         !.disabled = @ + 1,
                         !.changed = @ \cup {channel_record.id},
                         !.checked = @ \cup {<<channel_record.id, self.follow_channel>>}]
       ELSE IF outcome = "not_following"
       THEN [self EXCEPT !.outcome = outcome,
                         !.checked = @ \cup {<<channel_record.id, self.follow_channel>>}]
       ELSE [self EXCEPT !.outcome = outcome]

\* disable_moved_channels' try block and its except clause, for one record
disable_moved_try(self, channel_record, outcome) ==
    IF outcome = "following"
       THEN [self EXCEPT !.outcome = outcome,
                         !.disabled = @ + 1,
                         !.changed = IF ~self.option THEN @ \cup {channel_record.id} ELSE @,
                         !.checked = @ \cup {<<channel_record.id, self.follow_channel>>}]
       ELSE IF outcome = "not_following"
       THEN [self EXCEPT !.outcome = outcome,
                         !.checked = @ \cup {<<channel_record.id, self.follow_channel>>}]
       ELSE [self EXCEPT !.outcome = outcome]

\* time_till(dt.datetime.now()): the seconds since the batch started
time_till(iterations, latency) ==
    iterations * latency

\* the finally block were the measured time floored at one second
finally_floored(self) ==
    LET iterations == self.iterations + 1
        measured == time_till(iterations, self.latency)
        elapsed == IF measured = 0 THEN 1 ELSE measured
        no_of_channels == Len(self.channel_record_list_all_types)
    IN  IF round(10 * iterations, elapsed) = 0
           THEN [self EXCEPT !.iterations = iterations, !.pc = "ZeroDivisionError"]
           ELSE IF \/ iterations % round(10 * iterations, elapsed) = 0
                   \/ iterations >= no_of_channels
           THEN [self EXCEPT !.iterations = iterations, !.pc = "progress"]
           ELSE [self EXCEPT !.iterations = iterations, !.pc = "loop"]

\* the finally block of both loops, up to its await: rate is the time per
\* iteration, 10 / rate and iterations % round(10 / rate) raise
\* ZeroDivisionError when the divisor is zero
finally(self) ==
    LET iterations == self.iterations + 1
        elapsed == time_till(iterations, self.latency)
        no_of_channels == Len(self.channel_record_list_all_types)
    IN  IF elapsed = 0
           THEN [self EXCEPT !.iterations = iterations, !.pc = "ZeroDivisionError"]
           ELSE IF round(10 * iterations, elapsed) = 0
           THEN [self EXCEPT !.iterations = iterations, !.pc = "ZeroDivisionError"]
           ELSE IF \/ iterations % round(10 * iterations, elapsed) = 0
                   \/ iterations >= no_of_channels
           THEN [self EXCEPT !.iterations = iterations, !.pc = "progress"]
           ELSE [self EXCEPT !.iterations = iterations, !.pc = "loop"]

\* one iteration of migrate, from the return of its calls to the finally block
migrate_returns(outcome) ==
    /\ batch.pc = "try"
    /\ batch.command = "migrate"
    /\ LET channel_record == batch.channel_record_list_all_types[batch.iterations + 1]
       IN  /\ outcome \in MigrateOutcomes(channel_record, batch.follow_channel)
           /\ calls' = calls \ {Call(batch.command, channel_record)}
           /\ batch' = finally(migrate_try(batch, channel_record, outcome))
    /\ UNCHANGED <<settings, watch_vars, channels, follow_channel_id, rectify>>

\* one iteration of disable_moved_channels, likewise
disable_moved_returns(outcome) ==
    /\ batch.pc = "try"
    /\ batch.command = "disable_moved"
    /\ LET channel_record == batch.channel_record_list_all_types[batch.iterations + 1]
       IN  /\ outcome \in DisableOutcomes(channel_record, batch.follow_channel)
           /\ calls' = calls \ {Call(batch.command, channel_record)}
           /\ batch' = finally(disable_moved_try(batch, channel_record, outcome))
    /\ UNCHANGED <<settings, watch_vars, channels, follow_channel_id, rectify>>

\* await ctx.edit_last_response(embed=reporting_embed) returns
batch_progress ==
    /\ batch.pc = "progress"
    /\ batch' = [batch EXCEPT !.edits = @ + 1, !.pc = "loop"]
    /\ UNCHANGED <<settings, watch_vars, channels, follow_channel_id, rectify, calls>>

\* ctx.edit_last_response raises, inside the finally block
batch_progress_raised ==
    /\ batch.pc = "progress"
    /\ batch' = [batch EXCEPT !.pc = "raised"]
    /\ UNCHANGED <<settings, watch_vars, channels, follow_channel_id, rectify, calls>>

\* a batch over the tables and the configuration an admin can have left
InitMigrate ==
    /\ settings = {NoInstance}
    /\ upstream = [u \in Urls |-> "http://b"]
    /\ now = 0
    /\ run = [i \in RunIds |-> IdleRun]
    /\ dispatched = [i \in RunIds |-> 0]
    /\ manual_dispatched = 0
    /\ trigger_without_url_update = FALSE
    /\ ctrl = [c \in CtrlIds |-> IdleCtrl]
    /\ embed = [e \in EmbedIds |-> IdleEmbed]
    /\ channels \in UNION {ChannelRecords(n, {"xur", "reset"},
                                          {kyber_discord_server_id, other_server_id},
                                          {TRUE}, BOOLEAN) :
                             n \in 0..MaxBatchChannels}
    /\ follow_channel_id \in {FollowChannelIds,
                              [t \in {"ls", "xur", "reset"} |-> 0 - 1]}
    /\ rectify = NotRunning
    /\ batch = NotRunning
    /\ calls = {}
    /\ url_cmd = NotRunning
    /\ InitCommands

NextMigrate ==
    \/ \E disable_moved \in BOOLEAN, latency \in Latencies :
          migrate(disable_moved, latency)
    \/ \E dry_run \in BOOLEAN, latency \in Latencies :
          disable_moved_channels(dry_run, latency)
    \/ batch_select
    \/ batch_loop
    \/ \E outcome \in {"bad_request", "forbidden", "not_found", "not_guild",
                       "misc_exception", "home", "feature_disabled", "following",
                       "migrated"} : migrate_returns(outcome)
    \/ \E outcome \in {"exception", "home", "feature_disabled", "following",
                       "not_following"} : disable_moved_returns(outcome)
    \/ batch_progress
    \/ batch_progress_raised

SpecMigrate == InitMigrate /\ [][NextMigrate]_vars

\* a correction pass and a migrate or disable_moved batch given at the same
\* time, over a table of posted, enabled records
InitConcurrent ==
    /\ settings = {PolledRow("http://b")}
    /\ upstream = [u \in Urls |-> "http://b"]
    /\ now = 0
    /\ run = [i \in RunIds |-> IdleRun]
    /\ dispatched = [i \in RunIds |-> 0]
    /\ manual_dispatched = 0
    /\ trigger_without_url_update = FALSE
    /\ ctrl = [c \in CtrlIds |-> IdleCtrl]
    /\ embed = [e \in EmbedIds |-> IdleEmbed]
    /\ channels \in ChannelRecords(MaxBatchChannels, {autopost_channel_table},
                                   {other_server_id}, {TRUE}, {TRUE})
    /\ follow_channel_id = FollowChannelIds
    /\ rectify = NotRunning
    /\ batch = NotRunning
    /\ calls = {}
    /\ url_cmd = NotRunning
    /\ InitCommands

NextConcurrent ==
    \/ rectify_announcement
    \/ rectify_get
    \/ rectify_update_url
    \/ rectify_update_url_raised
    \/ rectify_select
    \/ rectify_commit
    \/ rectify_get_announce_embed
    \/ rectify_loop
    \/ \E outcome \in edit_embedded_message : rectify_edited(outcome)
    \/ rectify_progress
    \/ rectify_progress_raised
    \/ \E disable_moved \in BOOLEAN, latency \in Latencies :
          migrate(disable_moved, latency)
    \/ \E dry_run \in BOOLEAN, latency \in Latencies :
          disable_moved_channels(dry_run, latency)
    \/ batch_select
    \/ batch_loop
    \/ \E outcome \in {"bad_request", "forbidden", "not_found", "not_guild",
                       "misc_exception", "home", "feature_disabled", "following",
                       "migrated"} : migrate_returns(outcome)
    \/ \E outcome \in {"exception", "home", "feature_disabled", "following",
                       "not_following"} : disable_moved_returns(outcome)
    \/ batch_progress
    \/ batch_progress_raised

SpecConcurrent == InitConcurrent /\ [][NextConcurrent]_vars

\* ------------------------------------- UrlAutopostsBase.gfx_url, post_url
\* what the url commands leave alone, the settings table apart
url_cmd_frame ==
    <<upstream, now, run, dispatched, manual_dispatched,
      trigger_without_url_update, ctrl, embed,
      channels, follow_channel_id, rectify, batch, calls, command_vars>>

\* the url option as the admin can give it: left out, or a link
UrlOptions == {None, "HTTP://A"}

\* str.lower() of a url option
lower(url) ==
    IF url = "HTTP://A" THEN "http://a" ELSE url

\* the admin runs "gfx_url [url]"
gfx_url(url) ==
    /\ url_cmd.pc = "idle"
    /\ url_cmd' = [IdleUrlCmd EXCEPT !.pc = "get", !.command = "gfx_url",
                                  !.url = IF url # None THEN lower(url) ELSE None]
    /\ UNCHANGED <<settings, url_cmd_frame>>

\* the admin runs "post_url [url]"
post_url(url) ==
    /\ url_cmd.pc = "idle"
    /\ url_cmd' = [IdleUrlCmd EXCEPT !.pc = "get", !.command = "post_url",
                                  !.url = IF url # None THEN lower(url) ELSE None]
    /\ UNCHANGED <<settings, url_cmd_frame>>

\* what gfx_url and post_url answer when no url option is given: the current
\* value, "unset" without a row, and the default value
CurrentAndDefault(command, found) ==
    IF command = "gfx_url"
       THEN <<IF found THEN Row(default_id).url ELSE "unset", default_gfx_url>>
       ELSE <<IF found THEN Row(default_id).post_url ELSE "unset", default_post_url>>

\* url_cmd_get were the row got or created before the option is looked at
url_cmd_get_creating ==
    /\ url_cmd.pc = "get"
    /\ url_cmd.url = None
    /\ url_cmd' = [url_cmd EXCEPT
                     !.pc = "responded", !.found = HasRow(default_id),
                     !.response = CurrentAndDefault(url_cmd.command,
                                                    HasRow(default_id))]
    /\ settings' = IF HasRow(default_id) THEN settings
                                         ELSE Insert(NoInstance)
    /\ UNCHANGED url_cmd_frame

\* settings = await session.get(self.settings_table, 0): with no url option
\* the current and default values are reported and the handler returns; else
\* the field is set, on the row's instance or on a new one
url_cmd_get ==
    /\ url_cmd.pc = "get"
    /\ LET field == IF url_cmd.command = "gfx_url" THEN "url" ELSE "post_url"
           found == HasRow(default_id)
           instance == IF found THEN Row(default_id)
                                ELSE UrlPostSettings(default_id, None, None, TRUE)
       IN  IF url_cmd.url = None
              THEN url_cmd' = [url_cmd EXCEPT
                                 !.pc = "responded", !.found = found,
                                 !.response = CurrentAndDefault(url_cmd.command,
                                                                found)]
              ELSE url_cmd' = [url_cmd EXCEPT
                                 !.pc = IF ~found /\ url_cmd.command = "gfx_url"
                                           THEN "initialise_url_params" ELSE "commit",
                                 !.found = found,
                                 !.loaded = instance,
                                 !.self = [instance EXCEPT ![field] = url_cmd.url]]
    /\ UNCHANGED <<settings, url_cmd_frame>>

\* await settings.initialise_url_params(): a new instance has no redirect
\* target yet, so update_url is awaited
url_cmd_initialise_url_params ==
    /\ url_cmd.pc = "initialise_url_params"
    /\ url_cmd' = [url_cmd EXCEPT
                     !.pc = "commit",
                     !.self = update_url(url_cmd.self,
                                         follow_link_single_step(url_cmd.self.url), now)]
    /\ UNCHANGED <<settings, url_cmd_frame>>

\* the transaction commits: the INSERT of the new row (the primary key rejects
\* it when the row has been added meanwhile) or the UPDATE of the field; then
\* ctx.respond
url_cmd_commit ==
    /\ url_cmd.pc = "commit"
    /\ IF url_cmd.found
          THEN /\ settings' = Flush(url_cmd.loaded, url_cmd.self)
               /\ url_cmd' = [url_cmd EXCEPT !.pc = "responded",
                                             !.response = <<url_cmd.url>>]
          ELSE IF HasRow(default_id)
                  THEN /\ url_cmd' = [url_cmd EXCEPT !.pc = "raised"]
                       /\ UNCHANGED settings
                  ELSE /\ settings' = Insert(url_cmd.self)
                       /\ url_cmd' = [url_cmd EXCEPT !.pc = "responded",
                                                     !.response = <<url_cmd.url>>]
    /\ UNCHANGED url_cmd_frame

\* the watcher and the admin of the claim about their edits of the row
Watcher == 1
Admin == 1

\* one watcher and the admin's edits of the settings row, interleaved
NextEdit ==
    \/ trigger_on_signal(Watcher)
    \/ is_autoannounce_enabled(Watcher)
    \/ create_or_get_insert(Watcher)
    \/ wait_for_url_update(Watcher)
    \/ arm(Watcher)
    \/ poll(Watcher)
    \/ sleep(Watcher)
    \/ commit(Watcher)
    \/ \E option \in BOOLEAN : autopost_ctrl(Admin, option)
    \/ autopost_ctrl_get(Admin)
    \/ autopost_ctrl_commit(Admin)
    \/ \E url \in UrlOptions : gfx_url(url)
    \/ \E url \in UrlOptions : post_url(url)
    \/ url_cmd_get
    \/ url_cmd_initialise_url_params
    \/ url_cmd_commit
    \/ \E u \in Urls, t \in Targets : upstream_changes(u, t)
    \/ tick

SpecEdit == Init /\ [][NextEdit]_vars

\* ------------------------------------ user_commands: add, delete, edit
\* what the url commands, the watcher and the fan-outs hold, which the
\* admin-defined commands leave alone
user_cmd_frame ==
    <<settings, upstream, now, run, dispatched, manual_dispatched,
      trigger_without_url_update, ctrl, embed, fanout_vars, signal_linked,
      register_calls>>

\* the names an admin gives in the options: two free names and a reserved one
Names == {"a", "b", "add"}

\* an option left out
NoOption == ""

\* a dict or table without key k, and with k set to v
Without(f, k) ==
    [n \in DOMAIN f \ {k} |-> f[n]]

With(f, k, v) ==
    [n \in DOMAIN f \cup {k} |-> IF n = k THEN v ELSE f[n]]

\* a Commands instance, and the row it is stored as under its name
Commands(name, description, response) ==
    [name |-> name, description |-> description, response |-> response]

RowOf(command) ==
    [description |-> command.description, response |-> command.response]

\* the lightbulb command made of a Commands instance
db_command_to_lb_user_command(command) ==
    [name |-> command.name, description |-> command.description]

\* register_commands_on_startup: the registry and the bot's slash commands
\* hold every row of the table
RegisteredOnStartup(table) ==
    /\ commands = table
    /\ command_registry =
          [n \in DOMAIN table |->
              db_command_to_lb_user_command(
                  Commands(n, table[n].description, table[n].response))]
    /\ bot = [slash_commands |-> ReservedNames \cup DOMAIN table,
              listeners |-> [cls \in SignalClasses |-> 1]]

\* the locals of a handler of user_commands, as it starts
IdleUserCmd ==
    [pc |-> "idle", command |-> "none", name |-> NoOption,
     new_name |-> NoOption, new_response |-> NoOption,
     new_description |-> NoOption, outcome |-> "none"]

\* the admin gives "add name description response"; str.lower() is the
\* identity on the names drawn
add_command(name) ==
    /\ user_cmd.pc \in {"idle", "done"}
    /\ user_cmd' = [IdleUserCmd EXCEPT !.pc = "running", !.command = "add",
                                       !.name = name]
    /\ UNCHANGED <<user_cmd_frame, commands, command_registry, bot>>

\* the admin gives "delete name"
del_command(name) ==
    /\ user_cmd.pc \in {"idle", "done"}
    /\ user_cmd' = [IdleUserCmd EXCEPT !.pc = "running", !.command = "delete",
                                       !.name = name]
    /\ UNCHANGED <<user_cmd_frame, commands, command_registry, bot>>

\* the admin gives "edit name [new_name] [new_response] [new_description]"
edit_command(name, new_name, new_response, new_description) ==
    /\ user_cmd.pc \in {"idle", "done"}
    /\ user_cmd' = [IdleUserCmd EXCEPT !.pc = "running", !.command = "edit",
                                       !.name = name, !.new_name = new_name,
                                       !.new_response = new_response,
                                       !.new_description = new_description]
    /\ UNCHANGED <<user_cmd_frame, commands, command_registry, bot>>

\* add_command runs to its end: the name is looked up among the hardcoded
\* names and the rows; a free name is put in the registry, then registered
\* with the bot, which raises CommandAlreadyExists on a name it holds and
\* rolls the transaction back; else the row is inserted at the commit
add_command_returns ==
    /\ user_cmd.pc = "running"
    /\ user_cmd.command = "add"
    /\ LET command == Commands(user_cmd.name, "d1", "r1")
       IN  IF command.name \in ReservedNames \cup DOMAIN commands
              THEN /\ user_cmd' = [user_cmd EXCEPT !.pc = "done",
                                                   !.outcome = "exists"]
                   /\ UNCHANGED <<commands, command_registry, bot>>
              ELSE /\ command_registry' =
                         With(command_registry, command.name,
                              db_command_to_lb_user_command(command))
                   /\ IF command.name \in bot.slash_commands
                         THEN /\ user_cmd' = [user_cmd EXCEPT
                                                !.pc = "done",
                                                !.outcome = "CommandAlreadyExists"]
                              /\ UNCHANGED <<commands, bot>>
                         ELSE /\ bot' = [bot EXCEPT
                                           !.slash_commands = @ \cup {command.name}]
                              /\ commands' = With(commands, command.name,
                                                  RowOf(command))
                              /\ user_cmd' = [user_cmd EXCEPT !.pc = "done",
                                                              !.outcome = "added"]
    /\ UNCHANGED user_cmd_frame

\* how ctx.respond can end
Responds == {"responded", "raised"}

\* del_command runs to its end: the name is popped off the registry, or is
\* not in it; the DELETE is executed, the command is removed from the bot,
\* and ctx.respond is awaited inside the transaction, which is rolled back
\* when it raises
del_command_returns(respond) ==
    /\ user_cmd.pc = "running"
    /\ user_cmd.command = "delete"
    /\ IF user_cmd.name \notin DOMAIN command_registry
          THEN /\ user_cmd' = [user_cmd EXCEPT !.pc = "done",
                                               !.outcome = "KeyError"]
               /\ UNCHANGED <<commands, command_registry, bot>>
          ELSE /\ command_registry' = Without(command_registry, user_cmd.name)
               /\ bot' = [bot EXCEPT
                            !.slash_commands =
                                @ \ {command_registry[user_cmd.name].name}]
               /\ IF respond = "responded"
                     THEN /\ commands' = Without(commands, user_cmd.name)
                          /\ user_cmd' = [user_cmd EXCEPT !.pc = "done",
                                                          !.outcome = "deleted"]
                     ELSE /\ UNCHANGED commands
                          /\ user_cmd' = [user_cmd EXCEPT !.pc = "done",
                                                          !.outcome = "raised"]
    /\ UNCHANGED user_cmd_frame

\* edit_command's block for new_name, on the handler's view st of the table,
\* the registry, the bot's commands and the instance: the instance is
\* renamed, the old name is popped and removed, the new one is put in the
\* registry and registered with the bot, and the UPDATE of the primary key is
\* committed; what raises rolls the UPDATE back, not the registry
edit_new_name(st, new_name) ==
    IF new_name = NoOption \/ st.raised # "none"
       THEN st
       ELSE LET old_name == st.command.name
                command == [st.command EXCEPT !.name = new_name]
                slash_commands == st.slash_commands \ {old_name}
            IN  IF old_name \notin DOMAIN st.command_registry
                   THEN [st EXCEPT !.raised = "KeyError"]
                   ELSE LET registry ==
                              With(Without(st.command_registry, old_name), new_name,
                                   db_command_to_lb_user_command(command))
                        IN  IF new_name \in slash_commands
                               THEN [st EXCEPT !.command_registry = registry,
                                               !.slash_commands = slash_commands,
                                               !.raised = "CommandAlreadyExists"]
                               ELSE IF new_name # old_name /\ new_name \in DOMAIN st.commands
                               THEN [st EXCEPT !.command_registry = registry,
                                               !.slash_commands =
                                                   slash_commands \cup {new_name},
                                               !.raised = "IntegrityError"]
                               ELSE [st EXCEPT !.command_registry = registry,
                                               !.slash_commands =
                                                   slash_commands \cup {new_name},
                                               !.command = command,
                                               !.commands =
                                                   With(Without(@, old_name), new_name,
                                                        RowOf(command))]

\* edit_command's block for new_response
edit_new_response(st, new_response) ==
    IF new_response = NoOption \/ st.raised # "none"
       THEN st
       ELSE LET command == [st.command EXCEPT !.response = new_response]
            IN  [st EXCEPT !.command = command,
                           !.commands = With(@, command.name, RowOf(command))]

\* edit_command's block for new_description: the command is removed and
\* registered again with the description
edit_new_description(st, new_description) ==
    IF new_description = NoOption \/ st.raised # "none"
       THEN st
       ELSE LET command == [st.command EXCEPT !.description = new_description]
            IN  IF command.name \notin DOMAIN st.command_registry
                   THEN [st EXCEPT !.raised = "KeyError"]
                   ELSE [st EXCEPT
                           !.command = command,
                           !.command_registry =
                               With(@, command.name,
                                    db_command_to_lb_user_command(command)),
                           !.slash_commands =
                               (@ \ {st.command_registry[command.name].name})
                                   \cup {command.name},
                           !.commands = With(@, command.name, RowOf(command))]

\* edit_command runs to its end: fetchone()[0] raises TypeError when no row
\* has the name; with no option the row is reported; else the blocks for
\* new_name, new_response and new_description, each in its own transaction
edit_command_returns ==
    /\ user_cmd.pc = "running"
    /\ user_cmd.command = "edit"
    /\ IF user_cmd.name \notin DOMAIN commands
          THEN /\ user_cmd' = [user_cmd EXCEPT !.pc = "done",
                                               !.outcome = "TypeError"]
               /\ UNCHANGED <<commands, command_registry, bot>>
          ELSE IF /\ user_cmd.new_name = NoOption
                  /\ user_cmd.new_response = NoOption
                  /\ user_cmd.new_description = NoOption
          THEN /\ user_cmd' = [user_cmd EXCEPT !.pc = "done",
                                               !.outcome = "reported"]
               /\ UNCHANGED <<commands, command_registry, bot>>
          ELSE LET row == commands[user_cmd.name]
                   st0 == [commands |-> commands,
                           command_registry |-> command_registry,
                           slash_commands |-> bot.slash_commands,
                           command |-> Commands(user_cmd.name, row.description,
                                                row.response),
                           raised |-> "none"]
                   st1 == edit_new_name(st0, user_cmd.new_name)
                   st2 == edit_new_response(st1, user_cmd.new_response)
                   st3 == edit_new_description(st2, user_cmd.new_description)
               IN  /\ commands' = st3.commands
                   /\ command_registry' = st3.command_registry
                   /\ bot' = [bot EXCEPT !.slash_commands = st3.slash_commands]
                   /\ user_cmd' = [user_cmd EXCEPT
                                     !.pc = "done",
                                     !.outcome = IF st3.raised = "none"
                                                    THEN "updated" ELSE st3.raised]
    /\ UNCHANGED user_cmd_frame

\* the table a previous life of the bot can have left: no row, or rows of
\* the free names
Tables ==
    {[n \in D |-> RowOf(Commands(n, "d1", "r1"))] : D \in SUBSET (Names \ ReservedNames)}

\* the bot has started on such a table
InitUserCommands ==
    /\ settings = {NoInstance}
    /\ upstream = [u \in Urls |-> "http://b"]
    /\ now = 0
    /\ run = [i \in RunIds |-> IdleRun]
    /\ dispatched = [i \in RunIds |-> 0]
    /\ manual_dispatched = 0
    /\ trigger_without_url_update = FALSE
    /\ ctrl = [c \in CtrlIds |-> IdleCtrl]
    /\ embed = [e \in EmbedIds |-> IdleEmbed]
    /\ channels = <<>>
    /\ follow_channel_id = FollowChannelIds
    /\ rectify = NotRunning
    /\ batch = NotRunning
    /\ calls = {}
    /\ url_cmd = NotRunning
    /\ \E table \in Tables : RegisteredOnStartup(table)
    /\ signal_linked = [cls \in {"BaseUrlSignal"} \cup SignalClasses |->
                           cls \in SignalClasses]
    /\ user_cmd = NotRunning
    /\ register_calls = [cls \in SignalClasses |-> 1]

\* add, delete and edit commands, one after another
NextUserCommands ==
    \/ \E name \in Names : add_command(name)
    \/ \E name \in Names : del_command(name)
    \/ \E name \in Names, new_name \in {NoOption} \cup Names,
          new_response \in {NoOption, "r2"}, new_description \in {NoOption, "d2"} :
          edit_command(name, new_name, new_response, new_description)
    \/ add_command_returns
    \/ \E respond \in Responds : del_command_returns(respond)
    \/ edit_command_returns

SpecUserCommands == InitUserCommands /\ [][NextUserCommands]_vars

\* ------------------------------------------------------------------- Spec
\* the signal dispatcher and the watcher: trigger events, manual announces,
\* the admin's enable/disable, restarts, the link and the clock
Next ==
    \/ \E i \in RunIds : trigger_on_signal(i)
    \/ \E i \in RunIds : is_autoannounce_enabled(i)
    \/ \E i \in RunIds : create_or_get_insert(i)
    \/ \E i \in RunIds : wait_for_url_update(i)
    \/ \E i \in RunIds : arm(i)
    \/ \E i \in RunIds : poll_disconnected(i)
    \/ \E i \in RunIds : poll_raised(i)
    \/ \E i \in RunIds : poll(i)
    \/ \E i \in RunIds : sleep(i)
    \/ \E i \in RunIds : commit(i)
    \/ manual_announce
    \/ \E option \in BOOLEAN : autopost_ctrl_uninterrupted(option)
    \/ restart
    \/ \E u \in Urls, t \in Targets : upstream_changes(u, t)
    \/ tick

Spec == Init /\ [][Next]_vars

\* single polls of the row: the embed command, the link and the clock
NextUrl ==
    \/ \E e \in EmbedIds : embed_command_impl(e)
    \/ \E e \in EmbedIds : embed_update_url(e)
    \/ \E e \in EmbedIds : embed_update_url_raised(e)
    \/ \E e \in EmbedIds : embed_commit(e)
    \/ \E u \in Urls, t \in Targets : upstream_changes(u, t)
    \/ tick

SpecUrl == Init /\ [][NextUrl]_vars

\* the get-or-create of the settings row: the migration, the admin's
\* enable/disable and the two _create_or_get calls of a run, interleaved
NextSettings ==
    \/ upgrade
    \/ \E c \in CtrlIds, option \in BOOLEAN : autopost_ctrl(c, option)
    \/ \E c \in CtrlIds : autopost_ctrl_get(c)
    \/ \E c \in CtrlIds : autopost_ctrl_commit(c)
    \/ \E i \in RunIds : trigger_on_signal(i)
    \/ \E i \in RunIds : is_autoannounce_enabled(i)
    \/ \E i \in RunIds : create_or_get_insert(i)
    \/ \E i \in RunIds : wait_for_url_update(i)

SpecSettings == Init /\ [][NextSettings]_vars

\* ------------------------------------------------- BaseUrlSignal.register
\* the signal class of the announcement type modelled (xur.py:39)
autopost_trigger_signal == "XurSignal"

\* cls._signal_linked: the attribute in the class's own namespace, else the
\* one BaseUrlSignal defines
SignalLinked(cls) ==
    IF cls \in DOMAIN signal_linked THEN signal_linked[cls]
                                    ELSE signal_linked["BaseUrlSignal"]

\* what a register call leaves alone
register_frame ==
    <<settings, upstream, now, run, dispatched, manual_dispatched,
      trigger_without_url_update, ctrl, embed, fanout_vars,
      commands, command_registry, user_cmd>>

\* mutant: register listening at every call
register_every_call(cls) ==
    /\ register_calls[cls] < MaxRegister
    /\ register_calls' = [register_calls EXCEPT ![cls] = @ + 1]
    /\ bot' = [bot EXCEPT !.listeners[cls] = @ + 1]
    /\ signal_linked' = With(signal_linked, cls, TRUE)
    /\ UNCHANGED register_frame

\* BaseUrlSignal.register(bot), called by UrlAutopostsBase.register at startup
\* and by every dispatch_with: bot.listen subscribes conditional_reset_repeater
\* to trigger_on_signal unless cls._signal_linked, which is then set on cls
register(cls) ==
    /\ register_calls[cls] < MaxRegister
    /\ register_calls' = [register_calls EXCEPT ![cls] = @ + 1]
    /\ IF ~SignalLinked(cls)
          THEN /\ bot' = [bot EXCEPT !.listeners[cls] = @ + 1]
               /\ signal_linked' = With(signal_linked, cls, TRUE)
          ELSE UNCHANGED <<bot, signal_linked>>
    /\ UNCHANGED register_frame

\* a trigger_on_signal event is dispatched: the bot starts the callback of
\* every subscription to it, one conditional_reset_repeater run each
dispatch_trigger_on_signal ==
    /\ LET idle == {i \in RunIds : run[i].pc = "idle"}
           started == {i \in idle :
                          Cardinality({j \in idle : j < i})
                             < bot.listeners[autopost_trigger_signal]}
       IN  /\ started # {}
           /\ run' = [i \in RunIds |->
                        IF i \in started
                           THEN [run[i] EXCEPT !.pc = "is_autoannounce_enabled"]
                           ELSE run[i]]
    /\ UNCHANGED <<fanout_vars, command_vars, settings, upstream, now, dispatched,
                   manual_dispatched, trigger_without_url_update, ctrl, embed>>

\* the bot before any module has registered
InitRegister ==
    /\ settings \in {{NoInstance}} \cup {{PolledRow(t)} : t \in Targets}
    /\ upstream = [u \in Urls |-> "http://b"]
    /\ now = 0
    /\ run = [i \in RunIds |-> IdleRun]
    /\ dispatched = [i \in RunIds |-> 0]
    /\ manual_dispatched = 0
    /\ trigger_without_url_update \in BOOLEAN
    /\ ctrl = [c \in CtrlIds |-> IdleCtrl]
    /\ embed = [e \in EmbedIds |-> IdleEmbed]
    /\ channels = <<>>
    /\ follow_channel_id = FollowChannelIds
    /\ rectify = NotRunning
    /\ batch = NotRunning
    /\ calls = {}
    /\ url_cmd = NotRunning
    /\ commands = Empty
    /\ command_registry = Empty
    /\ bot = [slash_commands |-> ReservedNames,
              listeners |-> [cls \in SignalClasses |-> 0]]
    /\ signal_linked = [cls \in {"BaseUrlSignal"} |-> FALSE]
    /\ user_cmd = NotRunning
    /\ register_calls = [cls \in SignalClasses |-> 0]

\* register calls, trigger events and the runs they start, up to the poll loop
NextRegister ==
    \/ \E cls \in SignalClasses : register(cls)
    \/ dispatch_trigger_on_signal
    \/ \E i \in RunIds : is_autoannounce_enabled(i)
    \/ \E i \in RunIds : wait_for_url_update(i)
    \/ \E i \in RunIds : arm(i)

SpecRegister == InitRegister /\ [][NextRegister]_vars

\* one watcher under a fair asyncio loop: a coroutine that can take a step
\* takes it, and a poll that can be answered is answered in the end, however
\* often the server disconnects before
NextLive ==
    \/ trigger_on_signal(Watcher)
    \/ is_autoannounce_enabled(Watcher)
    \/ create_or_get_insert(Watcher)
    \/ wait_for_url_update(Watcher)
    \/ arm(Watcher)
    \/ poll_disconnected(Watcher)
    \/ poll_raised(Watcher)
    \/ poll(Watcher)
    \/ sleep(Watcher)
    \/ commit(Watcher)
    \/ \E u \in Urls, t \in Targets : upstream_changes(u, t)
    \/ tick

Fairness ==
    /\ WF_vars(is_autoannounce_enabled(Watcher))
    /\ WF_vars(create_or_get_insert(Watcher))
    /\ WF_vars(wait_for_url_update(Watcher))
    /\ WF_vars(arm(Watcher))
    /\ WF_vars(poll(Watcher))
    /\ WF_vars(sleep(Watcher))
    /\ WF_vars(commit(Watcher))

SpecLive == Init /\ [][NextLive]_vars /\ Fairness

\* ----------------------------------------------------------------- claims
\* a run is inside the poll loop of UrlPostSettings.wait_for_url_update
InPollLoop(i) ==
    run[i].pc \in {"poll", "sleep", "commit"}

\* the step is one of run i itself (a restart resets its locals)
StepOf(i) ==
    run'[i] # run[i] /\ run'[i].pc # "killed"

\* the settings row says autoannounce is disabled
Disabled ==
    HasRow(default_id) /\ ~Row(default_id).autoannounce_enabled

\* C1: at most one poll loop of wait_for_url_update is live at any time for
\* the settings row, whatever the interleaving of triggers.
C1_AtMostOneLiveLoop ==
    Cardinality({i \in RunIds : InPollLoop(i)}) <= 1

\* C2, as stated: with autoannounce disabled a trigger of either kind is a
\* no-op: the scheduled trigger's run ends without polling, arming or
\* dispatching, and the manual trigger dispatches nothing.
C2_DisabledTriggerIsNoOp ==
    [][Disabled =>
          /\ manual_dispatched' = manual_dispatched
          /\ \A i \in RunIds :
                (run[i].pc = "is_autoannounce_enabled" /\ StepOf(i)) =>
                    /\ run'[i].pc = "disabled"
                    /\ settings' = settings
                    /\ dispatched' = dispatched]_vars

\* C2, amended: a run started by the scheduled trigger that reads
\* autoannounce_enabled false ends there: it starts no poll loop, leaves the
\* row (and so url_watcher_armed) as it is and dispatches nothing, then or later.
C2_DisabledScheduledTriggerIsNoOp ==
    [][\A i \in RunIds :
          /\ (Disabled /\ run[i].pc = "is_autoannounce_enabled" /\ StepOf(i)) =>
                /\ run'[i].pc = "disabled"
                /\ settings' = settings
                /\ dispatched' = dispatched
          /\ run[i].pc = "disabled" =>
                /\ run'[i].pc = "disabled"
                /\ dispatched'[i] = 0]_vars

C2_Witness ==
    \E i \in RunIds :
        /\ run[i].pc = "disabled"
        /\ dispatched[i] = 0
        /\ Disabled
        /\ ~Row(default_id).url_watcher_armed

\* C3, as stated: a run dispatches the announcement-ready event only in the
\* step in which its wait_for_url_update returns, and in that step it does
\* dispatch it and the row's url_watcher_armed is false.
C3_DispatchOnlyAtReturn ==
    [][\A i \in RunIds :
          /\ dispatched'[i] # dispatched[i] =>
                (run[i].pc = "commit" /\ run'[i].pc = "returned")
          /\ (run[i].pc = "commit" /\ run'[i].pc = "returned") =>
                /\ dispatched'[i] = dispatched[i] + 1
                /\ ~Row(default_id)'.url_watcher_armed]_vars

\* C3, amended: the same, the first half only when the debug configuration
\* (cfg.test_env and cfg.trigger_without_url_update) is not set.
C3_DispatchOnlyAtReturnUnlessDebug ==
    [][\A i \in RunIds :
          /\ (~trigger_without_url_update /\ dispatched'[i] # dispatched[i]) =>
                (run[i].pc = "commit" /\ run'[i].pc = "returned")
          /\ (run[i].pc = "commit" /\ run'[i].pc = "returned") =>
                /\ dispatched'[i] = dispatched[i] + 1
                /\ ~Row(default_id)'.url_watcher_armed]_vars

C3_Witness ==
    /\ ~trigger_without_url_update
    /\ \E i \in RunIds :
          /\ run[i].pc = "returned"
          /\ dispatched[i] = 1
          /\ ~Row(default_id).url_watcher_armed

\* C4, as stated: the announcement-ready event of a manual trigger is
\* broadcast only in a step in which a poll (wait_for_url_update) returns.
C4_ManualTriggerPollsFirst ==
    [][manual_dispatched' # manual_dispatched =>
          \E i \in RunIds : run[i].pc = "commit" /\ run'[i].pc = "returned"]_vars

\* C4, amended: the manual trigger command broadcasts the announcement-ready
\* event at once: it starts no run and no poll and leaves the settings row
\* (url_watcher_armed included) as it is.
C4_ManualTriggerDispatchesAtOnce ==
    [][manual_dispatched' # manual_dispatched =>
          /\ manual_dispatched' = manual_dispatched + 1
          /\ run' = run
          /\ dispatched' = dispatched
          /\ settings' = settings]_vars

C4_Witness ==
    /\ manual_dispatched = 1
    /\ \A i \in RunIds : run[i].pc = "idle" /\ dispatched[i] = 0

C6_OnlyDisconnectIsRetried ==
    [][\A i \in RunIds :
          /\ (run[i].pc = "poll" /\ StepOf(i)
                /\ run'[i].result = "ServerDisconnectedError") =>
                /\ run'[i].pc = "poll"
                /\ run'[i].self = run[i].self
                /\ settings' = settings
                /\ dispatched' = dispatched
          /\ (run[i].pc = "poll" /\ StepOf(i) /\ run'[i].result = "ClientError") =>
                /\ run'[i].pc = "raised"
                /\ settings' = settings
                /\ dispatched' = dispatched
          /\ run[i].pc = "raised" =>
                /\ run'[i] = run[i]
                /\ dispatched'[i] = dispatched[i]]_vars

C6_Witness ==
    \E i, j \in RunIds :
        /\ run[i].pc = "poll"
        /\ run[i].result = "ServerDisconnectedError"
        /\ run[j].pc = "raised"
        /\ run[j].result = "ClientError"

\* C7: url_watcher_armed is never left true with no poll loop running: a loop
\* that ends without a change clears it, and a restart clears or re-arms it.
C7_ArmedOnlyWhileWatching ==
    (HasRow(default_id) /\ Row(default_id).url_watcher_armed) =>
        \E i \in RunIds : InPollLoop(i)

\* C8: a poll of the loop that resolves to the url_redirect_target it holds
\* leaves url_last_modified as it was and sets url_last_checked to the time.
C8_UnchangedPollUpdatesLastChecked ==
    [][\A i \in RunIds :
          (run[i].pc = "poll" /\ run'[i].pc = "sleep") =>
              /\ Row(default_id)'.url_last_modified = Row(default_id).url_last_modified
              /\ Row(default_id)'.url_last_checked = now]_vars

\* C9: a single poll (update_url) stamps url_last_checked with the poll time;
\* when the link resolves to something other than url_redirect_target it stores
\* the target and stamps url_last_modified with the same time, and when it
\* resolves to url_redirect_target again it leaves both as they were.
C9_SinglePolls ==
    [][\A e \in EmbedIds :
          (embed[e].pc = "update_url" /\ embed'[e].pc = "commit") =>
              LET before == embed[e].self
                  after == embed'[e].self
                  resolved == upstream[before.url]
              IN  /\ after.url_last_checked = now
                  /\ resolved # before.url_redirect_target =>
                        /\ after.url_redirect_target = resolved
                        /\ after.url_last_modified = now
                  /\ resolved = before.url_redirect_target =>
                        /\ after.url_redirect_target = before.url_redirect_target
                        /\ after.url_last_modified = before.url_last_modified]_vars

\* the scenario: the first poll, at time 0, finds a new target; the second, at
\* time 1, loads what the first stored and resolves to the same target
C9_Witness ==
    \E d, e \in EmbedIds :
        /\ embed[d].pc = "responded"
        /\ embed[d].loaded.url_redirect_target = None
        /\ embed[d].self.url_redirect_target = "http://b"
        /\ embed[d].self.url_last_modified = 0
        /\ embed[d].self.url_last_checked = 0
        /\ embed[e].pc = "responded"
        /\ embed[e].loaded = embed[d].self
        /\ embed[e].self.url_redirect_target = "http://b"
        /\ embed[e].self.url_last_modified = 0
        /\ embed[e].self.url_last_checked = 1
        /\ Row(default_id) = embed[e].self

\* C10: concurrent get-or-create calls on the settings row leave one row and
\* no caller fails.
C10_ConcurrentGetOrCreate ==
    /\ Cardinality(settings) <= 1
    /\ \A c \in CtrlIds : ctrl[c].pc = "responded" => Cardinality(settings) = 1
    /\ \A c \in CtrlIds : ctrl[c].pc # "raised"
    /\ \A i \in RunIds : run[i].pc # "raised"

\* the number of records of the pass whose outcome was o
Tally(o) ==
    Cardinality({k \in 1..Len(rectify.outcomes) : rectify.outcomes[k] = o})

\* the records without last_msg_id among the first n of the pass's list
NullRecords(list, n) ==
    {k \in 1..n : list[k].last_msg_id = NoMessage}

C13_NullRecordsAreSkippedAndCounted ==
    [][LET list == rectify.channel_record_list
       IN  /\ (rectify.pc = "loop" /\ rectify.idx < Len(list)
                 /\ list[rectify.idx + 1].last_msg_id = NoMessage
                 /\ rectify' # rectify) =>
                    /\ list[rectify.idx + 1].enabled
                    /\ calls' = calls
                    /\ rectify'.pc = "loop"
                    /\ rectify'.idx = rectify.idx + 1
                    /\ rectify'.none_counter = rectify.none_counter + 1
                    /\ rectify'.outcomes = Append(rectify.outcomes, "skipped")
           /\ rectify'.pc # "idle" =>
                 rectify'.none_counter =
                    Cardinality(NullRecords(rectify'.channel_record_list, rectify'.idx))]_vars

\* a finished pass that skipped a record and had an edit fail
C13_Witness ==
    /\ rectify.pc = "done"
    /\ rectify.none_counter = 1
    /\ Tally("skipped") = 1
    /\ Tally("forbidden") = 1

\* C15: a pass over 3 records, one without last_msg_id, one whose edit is
\* forbidden and one whose edit succeeds, completes with 1 skipped, 1
\* forbidden, 1 success, and reports "1 posts corrected".
C15_ScenarioReportsOneCorrected ==
    (/\ rectify.pc = "done"
     /\ Len(rectify.channel_record_list) = 3
     /\ Tally("skipped") = 1
     /\ Tally("forbidden") = 1
     /\ Tally("edited") = 1) =>
        /\ rectify.none_counter = 1
        /\ rectify.report = 1

\* C19: a correction pass that found no settings row edits no message, starts
\* no edit and makes no completion report: it never enters its loop.
C19_NoRowNoBatch ==
    (rectify.pc \notin {"idle", "get"} /\ ~rectify.found) =>
        /\ rectify.pc \in {"select", "commit", "get_announce_embed", "raised"}
        /\ rectify.outcomes = <<>>
        /\ rectify.edits = <<>>
        /\ rectify.report = NoMessage
        /\ calls = {}

\* the pass has failed, with a record to correct in its list
C19_Witness ==
    /\ rectify.pc = "raised"
    /\ ~rectify.found
    /\ \E k \in 1..Len(rectify.channel_record_list) :
          rectify.channel_record_list[k].last_msg_id # NoMessage

\* the outcome classes migrate keeps a counter for, each named as its counter
CountedClasses ==
    {"migrated", "not_found", "forbidden", "bad_request", "not_guild", "misc_exception"}

\* the sum of migrate's class counters
ClassCounters(self) ==
    self.migrated + self.not_found + self.forbidden + self.bad_request
        + self.not_guild + self.misc_exception

\* the batch has ended with an error it raised itself
Aborted ==
    batch.pc \in {"ZeroDivisionError", "raised"}

\* C12: in migrate and disable_moved no error of a per-channel iteration,
\* one raised while computing or sending the progress report included, ends
\* the batch, and at completion iterations is the number of channel records.
C12_NoIterationErrorEndsBatch ==
    /\ ~Aborted
    /\ batch.pc = "done" =>
          batch.iterations = Len(batch.channel_record_list_all_types)

\* C14, as stated: every iteration of migrate adds one to exactly one class
\* counter, so that at completion the counters sum to the channels iterated.
C14_CountersSumToIterations ==
    (batch.pc = "done" /\ batch.command = "migrate") =>
        /\ batch.iterations = Len(batch.channel_record_list_all_types)
        /\ ClassCounters(batch) = batch.iterations

\* C14, amended: an iteration of migrate that ends in one of the six classes
\* adds one to that class's counter and to no other; one that ends with the
\* record being of the home server, with following disabled or with the
\* channel following already adds to no counter; so the counters sum to the
\* iterations made less the iterations of these three kinds.
C14_CountedClassesCountOnce ==
    [][(batch.pc = "try" /\ batch.command = "migrate" /\ batch' # batch) =>
          /\ batch'.iterations = batch.iterations + 1
          /\ batch'.outcome \in CountedClasses \cup {"home", "feature_disabled", "following"}
          /\ \A class \in CountedClasses :
                batch'[class] = IF class = batch'.outcome THEN batch[class] + 1
                                                          ELSE batch[class]
          /\ ClassCounters(batch') =
                ClassCounters(batch) + (IF batch'.outcome \in CountedClasses THEN 1 ELSE 0)
          /\ ClassCounters(batch') <= batch'.iterations]_vars

\* a migrate that has completed, one record followed and one passed over
C14_Witness ==
    /\ batch.pc = "done"
    /\ batch.command = "migrate"
    /\ batch.iterations = 2
    /\ batch.migrated = 1
    /\ ClassCounters(batch) = 1

\* C16: a batch over N > 0 channels that has run to its end, or has ended
\* itself, has emitted at least 1 and at most N progress edits, in migrate and
\* disable_moved and in the correction pass.
C16_ProgressEditsBetweenOneAndN ==
    /\ (/\ batch.pc \in {"done", "ZeroDivisionError"}
        /\ Len(batch.channel_record_list_all_types) > 0) =>
            /\ batch.edits >= 1
            /\ batch.edits <= Len(batch.channel_record_list_all_types)
    /\ (rectify.pc = "done" /\ Len(rectify.channel_record_list) > 0) =>
            /\ Len(rectify.edits) >= 1
            /\ Len(rectify.edits) <= Len(rectify.channel_record_list)

\* C17: in migrate and disable_moved the channel tables change in one step
\* only, the commit that follows the last iteration, which sets enabled to
\* false for exactly the records changed during the loop; before it, and
\* after a batch has aborted, the tables are as the batch found them.
C17_MutationsCommittedOnceAfterLoop ==
    [][/\ channels' # channels =>
             /\ batch.pc = "loop"
             /\ batch.iterations = Len(batch.channel_record_list_all_types)
             /\ batch'.pc = "done"
             /\ DOMAIN channels' = DOMAIN channels
             /\ \A k \in DOMAIN channels :
                   channels'[k] = IF channels[k].id \in batch.changed
                                     THEN [channels[k] EXCEPT !.enabled = FALSE]
                                     ELSE channels[k]
       /\ batch'.pc \notin {"idle", "done"} =>
             \A k \in 1..Len(batch'.channel_record_list_all_types) :
                \E j \in DOMAIN channels' :
                   channels'[j] = batch'.channel_record_list_all_types[k]]_vars

\* a batch that has committed the two records it changed
C17_Witness ==
    /\ batch.pc = "done"
    /\ Cardinality(batch.changed) = 2
    /\ \A k \in DOMAIN channels :
          channels[k].id \in batch.changed => ~channels[k].enabled

\* a batch that aborted after it had changed a record: nothing is persisted
C17_WitnessAborted ==
    /\ Aborted
    /\ batch.changed # {}
    /\ \A k \in DOMAIN channels :
          channels[k].id \in batch.changed => channels[k].enabled

\* the calls of batch b in flight
CallsOf(b) ==
    {c \in calls : c.batch = b}

\* C20: within one fan-out batch at most one per-channel call is in flight at
\* any time, it is the call for the record the loop stands at, and a call is
\* started only when no call of the same batch is in flight; this holds for the
\* correction pass, for migrate and for disable_moved.
C20_OneCallInFlightPerBatch ==
    /\ [](/\ \A b \in {"rectify", "migrate", "disable_moved"} :
                Cardinality(CallsOf(b)) <= 1
          /\ \A c \in CallsOf("rectify") :
                /\ rectify.pc = "edit"
                /\ c.channel = rectify.channel_record_list[rectify.idx + 1].id
          /\ \A c \in calls \ CallsOf("rectify") :
                /\ batch.pc = "try"
                /\ c.batch = batch.command
                /\ c.channel =
                      batch.channel_record_list_all_types[batch.iterations + 1].id)
    /\ [][\A c \in calls' \ calls : CallsOf(c.batch) = {}]_vars

\* both batches are at their second record, each with its call in flight
C20_Witness ==
    /\ Cardinality(calls) = 2
    /\ Cardinality(CallsOf("rectify")) = 1
    /\ Cardinality(CallsOf(batch.command)) = 1
    /\ rectify.idx = 1
    /\ batch.iterations = 1

\* the columns the admin's commands write, and all the columns of a row
AdminColumns ==
    {"url", "post_url", "autoannounce_enabled"}

AllColumns ==
    DOMAIN NoInstance

\* the field a url command sets
UrlCmdField ==
    IF url_cmd.command = "gfx_url" THEN "url" ELSE "post_url"

\* C18: when the watcher and the admin's commands write the same settings row
\* no update is lost: a commit of the watcher stores url_watcher_armed, and
\* with a change url_redirect_target and url_last_modified, and leaves url,
\* post_url and autoannounce_enabled as the row holds them; a commit of
\* autopost_ctrl, gfx_url or post_url stores its field and leaves every other
\* column as the row holds it.
C18_NoLostUpdate ==
    [][/\ (run[Watcher].pc \in {"arm", "commit"} /\ StepOf(Watcher)) =>
             /\ \A f \in AdminColumns : Row(default_id)'[f] = Row(default_id)[f]
             /\ run[Watcher].pc = "arm" => Row(default_id)'.url_watcher_armed
             /\ run[Watcher].pc = "commit" =>
                   /\ Row(default_id)'.url_redirect_target = run[Watcher].cur
                   /\ Row(default_id)'.url_last_modified = now
                   /\ ~Row(default_id)'.url_watcher_armed
       /\ (ctrl[Admin].pc = "update" /\ ctrl'[Admin].pc = "responded") =>
             /\ Row(default_id)'.autoannounce_enabled = ctrl[Admin].option
             /\ \A f \in AllColumns \ {"autoannounce_enabled"} :
                   Row(default_id)'[f] = Row(default_id)[f]
       /\ (url_cmd.pc = "commit" /\ url_cmd.found /\ url_cmd'.pc = "responded") =>
             /\ Row(default_id)'[UrlCmdField] = url_cmd.url
             /\ \A f \in AllColumns \ {UrlCmdField} :
                   Row(default_id)'[f] = Row(default_id)[f]]_vars

\* gfx_url read the row while the watcher was armed, and both have committed:
\* the row holds the admin's url and what the watcher stored
C18_Witness ==
    /\ run[Watcher].pc = "returned"
    /\ url_cmd.pc = "responded"
    /\ url_cmd.command = "gfx_url"
    /\ url_cmd.url = "http://a"
    /\ url_cmd.loaded.url_watcher_armed
    /\ Row(default_id).url = "http://a"
    /\ Row(default_id).url_redirect_target # url_cmd.loaded.url_redirect_target
    /\ Row(default_id).url_last_modified = now
    /\ ~Row(default_id).url_watcher_armed

\* C21: gfx_url and post_url given no url option report the current value
\* ("unset" without a row) and the default value, and change nothing: no step
\* of such a command creates a settings row or modifies a field of the row.
C21_NoArgumentReportsAndChangesNothing ==
    [][(url_cmd' # url_cmd /\ url_cmd'.url = None) =>
          /\ settings' = settings
          /\ url_cmd'.pc = "responded" =>
                url_cmd'.response =
                   CurrentAndDefault(url_cmd'.command, HasRow(default_id))]_vars

\* gfx_url without an option has answered where there is no row: "unset" and
\* the default are reported and there is still no row
C21_Witness ==
    /\ url_cmd.pc = "responded"
    /\ url_cmd.command = "gfx_url"
    /\ url_cmd.url = None
    /\ url_cmd.response = <<"unset", default_gfx_url>>
    /\ settings = {}

\* post_url without an option has answered on a row: the row's post_url and
\* the default are reported and the row is as it was read
C21_WitnessRow ==
    /\ url_cmd.pc = "responded"
    /\ url_cmd.command = "post_url"
    /\ url_cmd.url = None
    /\ url_cmd.found
    /\ url_cmd.response = <<Row(default_id).post_url, default_post_url>>

\* C22: in migrate and in disable_moved, an iteration whose finally block
\* measures an average time per iteration of exactly zero raises
\* ZeroDivisionError at the divisor of the progress report.
C22_ZeroRateRaisesZeroDivisionError ==
    [][(/\ batch.pc = "try"
        /\ batch' # batch
        /\ time_till(batch.iterations + 1, batch.latency) = 0) =>
          /\ batch'.pc = "ZeroDivisionError"
          /\ batch'.iterations = batch.iterations + 1
          /\ batch'.edits = batch.edits]_vars

\* migrate has raised at the first record, whose calls took no time
C22_Witness ==
    /\ batch.pc = "ZeroDivisionError"
    /\ batch.command = "migrate"
    /\ batch.latency = 0
    /\ batch.iterations = 1
    /\ Len(batch.channel_record_list_all_types) = 2

\* disable_moved has raised likewise
C22_WitnessDisableMoved ==
    /\ batch.pc = "ZeroDivisionError"
    /\ batch.command = "disable_moved"
    /\ batch.latency = 0
    /\ batch.iterations = 1

\* the follow channel of the announcement type of the record with this id
OwnFollowChannel(id) ==
    follow_channel_id[channels[id].table]

\* C23: in migrate and disable_moved every enabled channel record is checked
\* against, and followed to, the follow channel of its own announcement type
\* (lost sector, Xur or weekly reset), never that of another type.
C23_FollowChannelOfOwnType ==
    batch.pc # "idle" =>
       \A c \in batch.checked \cup batch.followed : c[2] = OwnFollowChannel(c[1])

\* C24: after any sequence of add, delete and edit commands, ones that fail
\* or are rejected included, the key set of the in-memory command registry
\* equals the set of command names persisted in the Commands table.
C24_RegistryKeysAreTableNames ==
    user_cmd.pc \in {"idle", "done"} =>
       DOMAIN command_registry = DOMAIN commands

\* an add or edit request that would give a command a reserved name or the
\* name of another admin-defined command
Collides ==
    \/ /\ user_cmd.command = "add"
       /\ user_cmd.name \in ReservedNames \cup DOMAIN commands
    \/ /\ user_cmd.command = "edit"
       /\ user_cmd.name \in DOMAIN commands
       /\ user_cmd.new_name # NoOption
       /\ user_cmd.new_name \in ReservedNames \cup (DOMAIN commands \ {user_cmd.name})

\* C25: after any sequence of add and edit commands no admin-defined command
\* is named add, edit or delete (no two share a name, the name being the
\* table's key), and a request that would create such a collision is rejected
\* and leaves the table and the registry unchanged.
C25_NoNameCollision ==
    /\ [](DOMAIN commands \cap ReservedNames = {})
    /\ [][(user_cmd.pc = "running" /\ user_cmd'.pc = "done" /\ Collides) =>
             /\ commands' = commands
             /\ command_registry' = command_registry]_vars

\* C26: after an admin has changed the source url with gfx_url while a watcher
\* is armed, the watcher's subsequent polls resolve the new url, not the url
\* it read when the watch was armed.
C26_WatcherPollsTheNewUrl ==
    [][(/\ url_cmd.pc = "responded"
        /\ url_cmd.command = "gfx_url"
        /\ url_cmd.url # None
        /\ run[Watcher].pc = "poll"
        /\ run'[Watcher].pc \in {"commit", "sleep"}) =>
          run'[Watcher].cur = follow_link_single_step(url_cmd.url)]_vars

\* the watcher is armed and in its poll loop, autoannounce is enabled, and the
\* link resolves to another target than the row's url_redirect_target
ArmedAndChanged ==
    /\ run[Watcher].pc \in {"poll", "sleep"}
    /\ Row(default_id).url_watcher_armed
    /\ Row(default_id).autoannounce_enabled
    /\ follow_link_single_step(Row(default_id).url) # Row(default_id).url_redirect_target

\* the watcher has cleared url_watcher_armed and has dispatched the
\* announcement-ready event
ClearedAndBroadcast ==
    /\ run[Watcher].pc = "returned"
    /\ ~Row(default_id).url_watcher_armed
    /\ dispatched[Watcher] >= 1

\* the link resolves to the row's url_redirect_target again, undetected
ChangedBack ==
    /\ run[Watcher].pc \in {"poll", "sleep"}
    /\ follow_link_single_step(Row(default_id).url) = Row(default_id).url_redirect_target

\* C27: under fairness, if autoannounce is enabled and the target the url
\* resolves to comes to differ from the stored url_redirect_target and stays
\* different, an armed watcher eventually clears url_watcher_armed and the
\* announcement-ready event is eventually broadcast.
C27_ArmedWatcherEventuallyBroadcasts ==
    ArmedAndChanged ~> (ClearedAndBroadcast \/ ChangedBack)

\* C28: disable_moved run with dry_run = true leaves the enabled flag of every
\* channel record unchanged in storage, and still counts each channel it
\* would have disabled: each record found following the follow channel.
C28_DryRunCountsAndChangesNothing ==
    [][(/\ batch'.pc # "idle"
        /\ batch'.command = "disable_moved"
        /\ batch'.option) =>
          /\ channels' = channels
          /\ (batch.pc = "try" /\ batch'.pc # "try") =>
                batch'.disabled =
                   batch.disabled + (IF batch'.outcome = "following" THEN 1 ELSE 0)]_vars

\* a dry run has ended having counted both records, and both are enabled
C28_Witness ==
    /\ batch.pc = "done"
    /\ batch.command = "disable_moved"
    /\ batch.option
    /\ batch.disabled = 2
    /\ Len(channels) = 2
    /\ \A k \in DOMAIN channels : channels[k].enabled

\* the percentages of the progress edits of the pass, the one being sent last
Percentages ==
    IF rectify.pc = "progress"
       THEN Append(rectify.edits, rectify.percentage_progress)
       ELSE rectify.edits

\* C30: during a correction pass the percentage shown in a progress edit is a
\* multiple of 5 between 5 and 100 and is greater than that of the progress
\* edit before it, so a pass emits at most 20 progress edits.
C30_PercentagesGrowByFives ==
    rectify.pc # "idle" =>
       /\ \A k \in DOMAIN Percentages :
             /\ Percentages[k] % 5 = 0
             /\ Percentages[k] >= 5
             /\ Percentages[k] <= 100
             /\ k > 1 => Percentages[k - 1] < Percentages[k]
       /\ Len(Percentages) <= 20

\* a pass over more than 20 records has ended with 20 progress edits, the
\* last showing 100
C30_Witness ==
    /\ rectify.pc = "done"
    /\ Len(rectify.channel_record_list) > 20
    /\ Len(rectify.edits) = 20
    /\ rectify.edits[20] = 100

\* the runs a step starts
Started ==
    {i \in RunIds : run[i].pc = "idle" /\ run'[i].pc # "idle"}

\* C29: for each signal class, however many times register is called,
\* conditional_reset_repeater is subscribed to the trigger signal exactly
\* once, so one trigger event starts at most one conditional_reset_repeater
\* run.
C29_SubscribedExactlyOnce ==
    /\ [](\A cls \in SignalClasses :
             bot.listeners[cls] = IF register_calls[cls] >= 1 THEN 1 ELSE 0)
    /\ [][Cardinality(Started) <= 1]_vars

\* register has been called more than once for both signal classes, and a
\* trigger event has started one run and left the other idle
C29_Witness ==
    /\ \A cls \in SignalClasses : register_calls[cls] >= 2
    /\ \A cls \in SignalClasses : bot.listeners[cls] = 1
    /\ run[1].pc # "idle"
    /\ run[2].pc = "idle"

====
